---------------------------- MODULE Spec2Model ----------------------------
(***************************************************************************)
(* Ground-truth polygon checks of akvo/acorn-dqm-streamlit: the SurveyCTO  *)
(* coordinate parser, the geometry repair chain, the overlap detector and  *)
(* the reason collector of src/core/gt_check_functions.py, with the        *)
(* variants of src/utils/data_loader.py and src/gt_check_functions.py.     *)
(*                                                                         *)
(* A batch (a GeoDataFrame) is a sequence of rows; a row is a record whose *)
(* DOMAIN is the set of its columns.  Numbers are integers: accuracies in  *)
(* metres, areas in abstract square units.                                 *)
(***************************************************************************)
EXTENDS Integers, Sequences, FiniteSets, TLC

VARIABLES
    pc,                  \* the stage of the run
    polygon_string,      \* the raw coordinate cell given to the parser
    accuracy_zero_valid, \* the parser's accuracy_zero_valid argument
    parsed,              \* what the parser produced
    gdf,                 \* the batch: a sequence of rows
    geos                 \* the library's buffered areas and intersection areas for the batch

vars == <<pc, polygon_string, accuracy_zero_valid, parsed, gdf, geos>>

(***************************************************************************)
(* Bounds of the model.                                                    *)
(***************************************************************************)
MaxTokens == 5
NRows == 2
NOverlapRows == 3

(***************************************************************************)
(* Program constants.                                                      *)
(***************************************************************************)
GPS_ACCURACY_THRESHOLD == 10
EXCEL_CELL_LIMIT == 32767
MIN_SUBPLOT_AREA_SIZE == 450
MAX_SUBPLOT_AREA_SIZE == 750
MAX_VERTICES == 4
\* thresholds on ratios, x 100
THRESHOLD_LENGTH_WIDTH == 200
THRESHOLD_PROTRUDING_RATIO == 155
\* min_overlap of validate_geometry's call of validate_overlap, in percent
MIN_OVERLAP == 50

(***************************************************************************)
(* Generic helpers.                                                        *)
(***************************************************************************)
Range(s) == {s[i] : i \in 1..Len(s)}

(***************************************************************************)
(* Geometry values.  Polygon() is the canonical empty polygon; a polygon   *)
(* built from a coordinate list gets its ring closed, as shapely does.     *)
(***************************************************************************)
EmptyPolygon == [type |-> "Polygon", coords |-> <<>>]

ClosedRing(coordinates) ==
    IF coordinates[1] = coordinates[Len(coordinates)]
    THEN coordinates
    ELSE Append(coordinates, coordinates[1])

PolygonOf(coordinates) ==
    IF coordinates = <<>> THEN EmptyPolygon
    ELSE [type |-> "Polygon", coords |-> ClosedRing(coordinates)]

(***************************************************************************)
(* A non-empty geometry is a record:                                       *)
(*   type      shapely's geom_type                                         *)
(*   coords    the exterior ring of a Polygon, closing point included      *)
(*   valid     is_valid                                                    *)
(*   area      its area (0 for points and lines)                           *)
(*   parts     the members of a Multi* or a GeometryCollection             *)
(*   hasz      whether its coordinates carry a z value                     *)
(*   bounds    <<minx, miny, maxx, maxy>>, degrees                         *)
(*   centroid  <<lon, lat>>, degrees                                       *)
(*   lib       what the geometry library answers for this geometry where   *)
(*             the code asks it: convex_hull, orient, rewind, buffer0,     *)
(*             simplify, representative_point (buffered).  A key that is   *)
(*             absent means the library hands the geometry back unchanged. *)
(* NoneGeom is Python's None; RAISE stands for an exception leaving the    *)
(* function.                                                               *)
(***************************************************************************)
NoneGeom == [type |-> "None", coords |-> <<>>]
RAISE == [type |-> "Raise", coords |-> <<>>]

NoLib == <<>>

is_none(g) == g = NoneGeom
is_empty(g) == g = EmptyPolygon
is_valid(g) == IF is_empty(g) THEN TRUE ELSE g.valid
area(g) == IF is_empty(g) THEN 0 ELSE g.area
isinstance(g, t) == g.type = t
Lib(g, key) == IF key \in DOMAIN g.lib THEN g.lib[key] ELSE g

\* the ring of n coordinates through the points (k, k*k), closed at (0, 0)
Ring(n) == [i \in 1..n |-> IF i = n THEN <<0, 0>> ELSE <<i - 1, (i - 1) * (i - 1)>>]

\* the same ring with its second and third vertex exchanged: it crosses itself
CrossedRing(n) ==
    [i \in 1..n |-> IF i = 2 THEN Ring(n)[3] ELSE IF i = 3 THEN Ring(n)[2] ELSE Ring(n)[i]]

Place(name) ==
    CASE name = "normal"    -> [bounds |-> <<10, 10, 12, 12>>, centroid |-> <<11, 11>>]
      [] name = "highlat"   -> [bounds |-> <<10, 81, 12, 83>>, centroid |-> <<11, 82>>]
      [] name = "polar"     -> [bounds |-> <<10, 84, 12, 86>>, centroid |-> <<11, 85>>]
      [] name = "southedge" -> [bounds |-> <<10, -80, 12, -78>>, centroid |-> <<11, -79>>]
      [] name = "antarctic" -> [bounds |-> <<10, -86, 12, -84>>, centroid |-> <<11, -85>>]
      [] name = "beyond"    -> [bounds |-> <<184, 10, 186, 12>>, centroid |-> <<185, 11>>]

\* What the metric functions measure on a shape: the area of its minimum rotated
\* rectangle as a percentage of its own area, the length/width ratio of that
\* rectangle (x 100), and whether the circle of the configured radius covers it.
Shape(name) ==
    CASE name = "compact" -> [mrr_pct |-> 120, lw_x100 |-> 110, in_radius |-> TRUE]
      [] name = "spiky"   -> [mrr_pct |-> 200, lw_x100 |-> 150, in_radius |-> TRUE]
      [] name = "wide"    -> [mrr_pct |-> 130, lw_x100 |-> 300, in_radius |-> FALSE]

Geom(t, ring, ok, a, ps, z, place, shape, lib) ==
    [type |-> t, coords |-> ring, valid |-> ok, area |-> a, parts |-> ps, hasz |-> z,
     bounds |-> Place(place).bounds, centroid |-> Place(place).centroid,
     shape |-> shape, lib |-> lib]

ValidPolygon(n, a, z, place, shape) ==
    Geom("Polygon", Ring(n), TRUE, a, <<>>, z, place, shape, NoLib)
InvalidPolygon(ring, a, lib) ==
    Geom("Polygon", ring, FALSE, a, <<>>, FALSE, "normal", "compact", lib)
MultiPolygonOf(ps) ==
    Geom("MultiPolygon", <<>>, TRUE,
         IF Len(ps) = 1 THEN ps[1].area ELSE ps[1].area + ps[2].area,
         ps, FALSE, "normal", "compact", NoLib)
LineStringGeom == Geom("LineString", <<>>, TRUE, 0, <<>>, FALSE, "normal", "compact", NoLib)
PointGeom == Geom("Point", <<>>, TRUE, 0, <<>>, FALSE, "normal", "compact", NoLib)

\* representative_point().buffer(0.00005): a 64-gon (65 ring coordinates)
PointBuffer ==
    Geom("Polygon", [i \in 1..65 |-> IF i = 65 THEN <<1001, 0>> ELSE <<1000 + i, 0>>],
         TRUE, 1, <<>>, FALSE, "normal", "compact", NoLib)

(***************************************************************************)
(* Python's ~ on an int is -n - 1, and on a bool it is that of 1 or 0; an  *)
(* int is truthy when it is not 0.                                         *)
(***************************************************************************)
PyInvert(n) == -n - 1
PyInvertBool(b) == IF b THEN PyInvert(1) ELSE PyInvert(0)
Truthy(n) == n # 0

(***************************************************************************)
(* UTM projection.  The projected geometry is the same shape in another    *)
(* frame; the model keeps the record and its area.  A centroid outside the *)
(* latitudes -80..84 or the longitudes -180..180 gives the empty polygon.  *)
(***************************************************************************)
geom_to_utm(g) ==
    IF is_empty(g) THEN g
    ELSE IF ~(-80 <= g.centroid[2] /\ g.centroid[2] <= 84) THEN EmptyPolygon
    ELSE IF ~(-180 <= g.centroid[1] /\ g.centroid[1] <= 180) THEN EmptyPolygon
    ELSE g

\* geom_to_utm_with_crs: a pair (geometry, crs) when it projects, else a bare polygon
geom_to_utm_with_crs(g) ==
    IF is_empty(g) THEN [tuple |-> FALSE, geom |-> g]
    ELSE IF ~(-80 <= g.centroid[2] /\ g.centroid[2] <= 84)
         THEN [tuple |-> FALSE, geom |-> EmptyPolygon]
    ELSE IF ~(-180 <= g.centroid[1] /\ g.centroid[1] <= 180)
         THEN [tuple |-> FALSE, geom |-> EmptyPolygon]
    ELSE [tuple |-> TRUE, geom |-> g]

(***************************************************************************)
(* THE REPAIR STEPS, in the order GeometryFixer.fix_geometry applies them. *)
(***************************************************************************)
\* list(set(coords_list)): the distinct coordinates, here in order of first occurrence
RECURSIVE Unique(_)
Unique(s) ==
    IF s = <<>> THEN <<>>
    ELSE LET rest == Unique(SubSeq(s, 1, Len(s) - 1))
             last == s[Len(s)]
         IN IF last \in Range(rest) THEN rest ELSE Append(rest, last)

DedupeBody(g) ==
    LET coords_list == IF g.coords[1] = g.coords[Len(g.coords)]
                       THEN SubSeq(g.coords, 1, Len(g.coords) - 1)
                       ELSE g.coords
        unique_vertices == Unique(coords_list)
        closed == Append(unique_vertices, unique_vertices[1])
    IN IF Len(unique_vertices) < Len(coords_list)
       THEN IF Len(closed) > 2
            THEN IF "deduped" \in DOMAIN g.lib THEN g.lib.deduped
                 ELSE [g EXCEPT !.coords = closed]
            ELSE EmptyPolygon
       ELSE g

\* "if ~len(coords_list) == 0" compares -len-1 with 0
remove_duplicate_vertices(g) ==
    IF is_none(g) THEN RAISE
    ELSE IF is_empty(g) THEN EmptyPolygon
    ELSE IF ~isinstance(g, "Polygon") THEN RAISE
    ELSE IF PyInvert(Len(g.coords)) = 0 THEN DedupeBody(g)
    ELSE g

\* fix_self_intersecting_square without its is_valid test
fix_self_intersecting_square_unguarded(g) ==
    IF is_none(g) THEN g
    ELSE IF ~isinstance(g, "Polygon") THEN RAISE
    ELSE IF Len(g.coords) = 5 THEN Lib(g, "convex_hull")
    ELSE g

fix_self_intersecting_square(g) ==
    IF is_none(g) THEN g
    ELSE IF is_valid(g) THEN g
    ELSE IF ~isinstance(g, "Polygon") THEN RAISE
    ELSE IF Len(g.coords) = 5 THEN Lib(g, "convex_hull")
    ELSE g

fix_with_orient(g) ==
    IF is_none(g) THEN g
    ELSE IF is_valid(g) THEN g
    ELSE LET new_geom == Lib(g, "orient")
         IN IF is_valid(new_geom) THEN new_geom ELSE g

fix_with_rewind(g) ==
    IF is_none(g) THEN g
    ELSE IF is_valid(g) THEN g
    ELSE LET new_geom == Lib(g, "rewind")
         IN IF is_valid(new_geom) THEN new_geom ELSE g

\* fix_with_zero_buffer taking the buffer whatever its area
fix_with_zero_buffer_unchecked(g) ==
    IF is_none(g) THEN NoneGeom
    ELSE IF is_valid(g) THEN g
    ELSE Lib(g, "buffer0")

\* 0.995 <= new.area / old.area < 1.005, in integers; the ratio is 10000 when old.area = 0
fix_with_zero_buffer(g) ==
    IF is_none(g) THEN NoneGeom
    ELSE IF is_valid(g) THEN g
    ELSE LET new_geom == Lib(g, "buffer0")
         IN IF area(g) > 0
            THEN IF 995 * area(g) <= 1000 * area(new_geom)
                     /\ 1000 * area(new_geom) < 1005 * area(g)
                 THEN new_geom ELSE g
            ELSE g

\* wkb round trip with output_dimension=2
RECURSIVE Force2D(_)
Force2D(g) ==
    IF is_empty(g) THEN g
    ELSE [g EXCEPT !.hasz = FALSE,
                   !.parts = [i \in 1..Len(g.parts) |-> Force2D(g.parts[i])]]

fix_with_2d_polygon(g) ==
    IF is_none(g) THEN EmptyPolygon ELSE Force2D(g)

\* the lambda of fix_geometry that rejects points and lines
reject_area_less_types(g) ==
    IF is_none(g) THEN RAISE
    ELSE IF g.type \notin {"Point", "LineString", "MultiLineString"} THEN g
    ELSE EmptyPolygon

\* max(geom.geoms, key=...): the first part of the largest projected area
MaxAreaPart(ps) ==
    LET best == CHOOSE i \in 1..Len(ps) :
                    /\ \A j \in 1..Len(ps) : area(geom_to_utm(ps[j])) <= area(geom_to_utm(ps[i]))
                    /\ \A j \in 1..(i - 1) : area(geom_to_utm(ps[j])) < area(geom_to_utm(ps[i]))
    IN ps[best]

replace_multipolygons(g) ==
    IF is_none(g) THEN RAISE
    ELSE IF isinstance(g, "Polygon") THEN g
    ELSE IF isinstance(g, "MultiPolygon")
         THEN IF Len(g.parts) = 1 THEN g.parts[1]
              ELSE LET total_area_geom == area(geom_to_utm(g))
                       max_area_geom == MaxAreaPart(g.parts)
                       max_area == area(geom_to_utm(max_area_geom))
                   IN IF 9 * total_area_geom < 10 * max_area THEN max_area_geom ELSE g
    ELSE IF isinstance(g, "GeometryCollection")
         THEN IF Len(g.parts) = 1 THEN g.parts[1] ELSE g
    ELSE RAISE

\* simplify_geometry of src/gt_check_functions.py: it unpacks the result of
\* geom_to_utm_with_crs into two names, which a bare polygon does not allow
script_simplify_geometry(g) ==
    IF is_none(g) THEN RAISE
    ELSE IF is_empty(g) THEN g
    ELSE LET utm_geom_with_crs == geom_to_utm_with_crs(g)
         IN IF ~utm_geom_with_crs.tuple THEN RAISE
            ELSE LET wgs_geom == Lib(g, "simplify")
                 IN IF Truthy(PyInvertBool(is_valid(wgs_geom))) THEN g ELSE wgs_geom

\* "if ~simple_geom.is_valid" tests the int -2 or -1
simplify_geometry(g) ==
    IF is_none(g) THEN RAISE
    ELSE IF is_empty(g) THEN g
    ELSE LET utm_geom_with_crs == geom_to_utm_with_crs(g)
         IN IF ~utm_geom_with_crs.tuple THEN utm_geom_with_crs.geom
            ELSE LET simple_geom == Lib(g, "simplify")
                 IN IF Truthy(PyInvertBool(is_valid(simple_geom))) THEN g ELSE simple_geom

replace_area_zero(g) ==
    IF is_none(g) THEN NoneGeom
    ELSE IF area(g) = 0 /\ is_empty(g) THEN EmptyPolygon
    ELSE g

replace_none_geometries(g) == IF is_none(g) THEN EmptyPolygon ELSE g

replace_out_of_bound_geometries(g) ==
    IF is_none(g) THEN RAISE
    ELSE IF is_empty(g) THEN g
    ELSE IF g.bounds[1] <= -180 \/ 180 <= g.bounds[3]
            \/ g.bounds[2] <= -80 \/ 84 <= g.bounds[4]
         THEN EmptyPolygon
    ELSE g

\* replace_invalid handing an invalid geometry on
replace_invalid_keeping(g) == g

replace_invalid(g) ==
    IF is_none(g) THEN RAISE
    ELSE IF is_valid(g) THEN g
    ELSE IF is_empty(Lib(g, "buffer0")) THEN Lib(g, "representative_point")
    ELSE EmptyPolygon

\* The names of the steps, in the order of fix_geometry.
FixOrder == <<"dedupe", "hull", "orient", "rewind", "zero_buffer", "force_2d",
              "type_rejection", "multipolygons", "simplify", "area_zero", "none",
              "out_of_bound", "invalid">>

\* the steps with the hull rescue and the zero buffer in each other's place
FixStepFnExchanged(name, g) ==
    IF g = RAISE THEN RAISE
    ELSE CASE name = "dedupe"         -> remove_duplicate_vertices(g)
           [] name = "hull"           -> fix_with_zero_buffer(g)
           [] name = "orient"         -> fix_with_orient(g)
           [] name = "rewind"         -> fix_with_rewind(g)
           [] name = "zero_buffer"    -> fix_self_intersecting_square(g)
           [] name = "force_2d"       -> fix_with_2d_polygon(g)
           [] name = "type_rejection" -> reject_area_less_types(g)
           [] name = "multipolygons"  -> replace_multipolygons(g)
           [] name = "simplify"       -> simplify_geometry(g)
           [] name = "area_zero"      -> replace_area_zero(g)
           [] name = "none"           -> replace_none_geometries(g)
           [] name = "out_of_bound"   -> replace_out_of_bound_geometries(g)
           [] name = "invalid"        -> replace_invalid(g)

FixStepFn(name, g) ==
    IF g = RAISE THEN RAISE
    ELSE CASE name = "dedupe"         -> remove_duplicate_vertices(g)
           [] name = "hull"           -> fix_self_intersecting_square(g)
           [] name = "orient"         -> fix_with_orient(g)
           [] name = "rewind"         -> fix_with_rewind(g)
           [] name = "zero_buffer"    -> fix_with_zero_buffer(g)
           [] name = "force_2d"       -> fix_with_2d_polygon(g)
           [] name = "type_rejection" -> reject_area_less_types(g)
           [] name = "multipolygons"  -> replace_multipolygons(g)
           [] name = "simplify"       -> simplify_geometry(g)
           [] name = "area_zero"      -> replace_area_zero(g)
           [] name = "none"           -> replace_none_geometries(g)
           [] name = "out_of_bound"   -> replace_out_of_bound_geometries(g)
           [] name = "invalid"        -> replace_invalid(g)

\* fix_geometry on one geometry: the steps from the k-th on
RECURSIVE FixFrom(_, _)
FixFrom(k, g) ==
    IF k > Len(FixOrder) THEN g ELSE FixFrom(k + 1, FixStepFn(FixOrder[k], g))

FixGeometry(g) == FixFrom(1, g)

(***************************************************************************)
(* THE COORDINATE PARSER                                                   *)
(*                                                                         *)
(* A coordinate cell is null, or a string.  A string is modelled by its    *)
(* length class (cell_limit: exactly 32767 characters) and by what         *)
(* split(";") and then strip().split(" ") make of it: a sequence of vertex *)
(* tokens, each a sequence of fields; a blank token has no field.  A field *)
(* is a record: num says whether float() accepts it, val is its value.     *)
(***************************************************************************)
Num(v) == [num |-> TRUE, val |-> v]
NaF == [num |-> FALSE, val |-> 0]

\* Token kinds of the inputs: vertex i has longitude i and latitude 10 + i.
TokenKinds == {"acc0", "acc5", "acc10", "acc50", "blank", "short", "badacc", "badlon"}

Token(kind, i) ==
    CASE kind = "acc0"   -> <<Num(i), Num(10 + i), Num(0), Num(0)>>
      [] kind = "acc5"   -> <<Num(i), Num(10 + i), Num(0), Num(5)>>
      [] kind = "acc10"  -> <<Num(i), Num(10 + i), Num(0), Num(10)>>
      [] kind = "acc50"  -> <<Num(i), Num(10 + i), Num(0), Num(50)>>
      [] kind = "blank"  -> <<>>
      [] kind = "short"  -> <<Num(i), Num(10 + i), Num(0)>>
      [] kind = "badacc" -> <<Num(i), Num(10 + i), Num(0), NaF>>
      [] kind = "badlon" -> <<NaF, Num(10 + i), Num(0), Num(5)>>

Vertices(kinds) == [i \in 1..Len(kinds) |-> Token(kinds[i], i)]

\* is_invalid_polygon_string without its test of the cell's length
is_invalid_polygon_string_null_only(s) == s.isna

\* is_invalid_polygon_string: a null cell, or a cell of exactly 32767 characters
is_invalid_polygon_string(s) ==
    IF s.isna THEN TRUE
    ELSE IF s.len = EXCEL_CELL_LIMIT THEN TRUE
    ELSE FALSE

(***************************************************************************)
(* coordinates_from_vertices, one loop iteration: st is the loop state     *)
(* [coordinates, skip, raised].  float(parts[3]) raises IndexError on a    *)
(* token of fewer than 4 fields and ValueError on a non-numeric field, and *)
(* nothing in coordinates_from_vertices or geom_from_scto_str catches it.  *)
(***************************************************************************)
VertexStepCore(st, parts, acc_m, zero_valid) ==
    IF st.raised THEN st
    ELSE IF parts = <<>> THEN [st EXCEPT !.skip = @ + 1]
    ELSE IF Len(parts) < 4 \/ ~parts[4].num THEN [st EXCEPT !.raised = TRUE]
    ELSE LET accuracy == parts[4].val
             dropped == IF zero_valid THEN accuracy > acc_m
                        ELSE accuracy > acc_m \/ accuracy = 0
         IN IF dropped THEN [st EXCEPT !.skip = @ + 1]
            ELSE IF ~parts[1].num \/ ~parts[2].num THEN [st EXCEPT !.raised = TRUE]
            ELSE [st EXCEPT !.coordinates = Append(@, <<parts[2].val, parts[1].val>>)]

RECURSIVE LoopCore(_, _, _, _, _)
LoopCore(st, vertices, k, acc_m, zero_valid) ==
    IF k > Len(vertices) THEN st
    ELSE LoopCore(VertexStepCore(st, vertices[k], acc_m, zero_valid),
                  vertices, k + 1, acc_m, zero_valid)

coordinates_from_vertices(vertices, acc_m, zero_valid) ==
    LoopCore([coordinates |-> <<>>, skip |-> 0, raised |-> FALSE],
             vertices, 1, acc_m, zero_valid)

\* the final test of geom_from_scto_str, with the operands of a misplaced factor
TooManyDroppedSwapped(coordinates, skip_coordinates_counter) ==
    Len(coordinates) < 3 \/ skip_coordinates_counter >= Len(coordinates) * 4

TooManyDropped(coordinates, skip_coordinates_counter) ==
    Len(coordinates) < 3 \/ Len(coordinates) < skip_coordinates_counter * 4

\* The result of a call: raised, or the geometry returned, with the loop's counts.
ParseResult(st, parsedAny, geom) ==
    [raised |-> st.raised, parsedAny |-> parsedAny,
     coordinates |-> st.coordinates, skip |-> st.skip, geom |-> geom]

NoLoop == [coordinates |-> <<>>, skip |-> 0, raised |-> FALSE]

geom_from_scto_str(s, acc_m, zero_valid) ==
    IF is_invalid_polygon_string(s) THEN ParseResult(NoLoop, FALSE, EmptyPolygon)
    ELSE LET st == coordinates_from_vertices(s.vertices, acc_m, zero_valid)
         IN IF st.raised THEN ParseResult(st, TRUE, EmptyPolygon)
            ELSE IF TooManyDropped(st.coordinates, st.skip)
                 THEN ParseResult(st, TRUE, EmptyPolygon)
                 ELSE ParseResult(st, TRUE, PolygonOf(st.coordinates))

(***************************************************************************)
(* The variant of src/utils/data_loader.py: a token of fewer than 4 fields *)
(* is passed over without being counted, float() errors are caught and     *)
(* counted, and without accuracy_zero_valid an accuracy equal to the       *)
(* threshold is dropped.                                                   *)
(***************************************************************************)
VertexStepLoader(st, parts, acc_m, zero_valid) ==
    IF parts = <<>> THEN [st EXCEPT !.skip = @ + 1]
    ELSE IF Len(parts) < 4 THEN st
    ELSE IF ~parts[4].num THEN [st EXCEPT !.skip = @ + 1]
    ELSE LET accuracy == parts[4].val
             dropped == IF zero_valid THEN accuracy > acc_m
                        ELSE accuracy >= acc_m \/ accuracy = 0
         IN IF dropped THEN [st EXCEPT !.skip = @ + 1]
            ELSE IF ~parts[1].num \/ ~parts[2].num THEN [st EXCEPT !.skip = @ + 1]
            ELSE [st EXCEPT !.coordinates = Append(@, <<parts[2].val, parts[1].val>>)]

RECURSIVE LoopLoader(_, _, _, _, _)
LoopLoader(st, vertices, k, acc_m, zero_valid) ==
    IF k > Len(vertices) THEN st
    ELSE LoopLoader(VertexStepLoader(st, vertices[k], acc_m, zero_valid),
                    vertices, k + 1, acc_m, zero_valid)

loader_geom_from_scto_str(s, acc_m, zero_valid) ==
    IF s.isna THEN ParseResult(NoLoop, FALSE, EmptyPolygon)
    ELSE IF s.len = EXCEL_CELL_LIMIT THEN ParseResult(NoLoop, FALSE, EmptyPolygon)
    ELSE LET st == LoopLoader(NoLoop, s.vertices, 1, acc_m, zero_valid)
         IN IF Len(st.coordinates) < 3 THEN ParseResult(st, TRUE, EmptyPolygon)
            ELSE IF Len(st.coordinates) < st.skip * 4
                 THEN ParseResult(st, TRUE, EmptyPolygon)
                 ELSE ParseResult(st, TRUE, PolygonOf(st.coordinates))

(***************************************************************************)
(* ROWS.  Assign adds or overwrites a column.                              *)
(***************************************************************************)
Assign(row, col, val) ==
    [c \in DOMAIN row \cup {col} |-> IF c = col THEN val ELSE row[c]]

Has(row, col) == col \in DOMAIN row

MapRows(g, F(_)) == [i \in 1..Len(g) |-> F(g[i])]

FilterRows(g, Keep(_)) == SelectSeq(g, Keep)

\* ";".join(xs) and filter(None, xs) on sequences of strings
RECURSIVE Join(_)
Join(xs) ==
    IF xs = <<>> THEN ""
    ELSE IF Len(xs) = 1 THEN xs[1]
    ELSE Join(SubSeq(xs, 1, Len(xs) - 1)) \o ";" \o xs[Len(xs)]

RECURSIVE FilterNone(_)
FilterNone(xs) ==
    IF xs = <<>> THEN <<>>
    ELSE LET rest == FilterNone(SubSeq(xs, 1, Len(xs) - 1))
         IN IF xs[Len(xs)] = "" THEN rest ELSE Append(rest, xs[Len(xs)])

(***************************************************************************)
(* THE REASON COLLECTOR                                                    *)
(***************************************************************************)
\* the list of collect_reasons_subplot with two of its entries exchanged
ReasonListSwapped(row, min_subplot_area_size, max_subplot_area_size) ==
    << IF Has(row, "duplicate_id") /\ row.duplicate_id THEN "Duplicate plot id" ELSE "",
       IF Has(row, "overlap_ids") /\ row.overlap_ids # "" THEN "Overlapping polygons" ELSE "",
       IF Has(row, "in_country") /\ ~row.in_country THEN "Boundary not in country" ELSE "",
       IF Has(row, "in_radius") /\ ~row.in_radius THEN "Plot outside of radius" ELSE "",
       IF Has(row, "area_m2") /\ row.area_m2 < min_subplot_area_size
          THEN "Plot too small" ELSE "",
       IF Has(row, "area_m2") /\ row.area_m2 > max_subplot_area_size
          THEN "Plot too big" ELSE "",
       IF Has(row, "nr_vertices_too_small") /\ row.nr_vertices_too_small
          THEN "Nr vertices <= 3" ELSE "",
       IF Has(row, "protruding_ratio_too_big") /\ row.protruding_ratio_too_big
          THEN "Plot is protruding" ELSE "" >>

\* the list of collect_reasons_subplot with the area bounds themselves rejected
ReasonListInclusive(row, min_subplot_area_size, max_subplot_area_size) ==
    << IF Has(row, "overlap_ids") /\ row.overlap_ids # "" THEN "Overlapping polygons" ELSE "",
       IF Has(row, "duplicate_id") /\ row.duplicate_id THEN "Duplicate plot id" ELSE "",
       IF Has(row, "in_country") /\ ~row.in_country THEN "Boundary not in country" ELSE "",
       IF Has(row, "in_radius") /\ ~row.in_radius THEN "Plot outside of radius" ELSE "",
       IF Has(row, "area_m2") /\ row.area_m2 <= min_subplot_area_size
          THEN "Plot too small" ELSE "",
       IF Has(row, "area_m2") /\ row.area_m2 >= max_subplot_area_size
          THEN "Plot too big" ELSE "",
       IF Has(row, "nr_vertices_too_small") /\ row.nr_vertices_too_small
          THEN "Nr vertices <= 3" ELSE "",
       IF Has(row, "protruding_ratio_too_big") /\ row.protruding_ratio_too_big
          THEN "Plot is protruding" ELSE "" >>

ReasonList(row, min_subplot_area_size, max_subplot_area_size) ==
    << IF Has(row, "overlap_ids") /\ row.overlap_ids # "" THEN "Overlapping polygons" ELSE "",
       IF Has(row, "duplicate_id") /\ row.duplicate_id THEN "Duplicate plot id" ELSE "",
       IF Has(row, "in_country") /\ ~row.in_country THEN "Boundary not in country" ELSE "",
       IF Has(row, "in_radius") /\ ~row.in_radius THEN "Plot outside of radius" ELSE "",
       IF Has(row, "area_m2") /\ row.area_m2 < min_subplot_area_size
          THEN "Plot too small" ELSE "",
       IF Has(row, "area_m2") /\ row.area_m2 > max_subplot_area_size
          THEN "Plot too big" ELSE "",
       IF Has(row, "nr_vertices_too_small") /\ row.nr_vertices_too_small
          THEN "Nr vertices <= 3" ELSE "",
       IF Has(row, "protruding_ratio_too_big") /\ row.protruding_ratio_too_big
          THEN "Plot is protruding" ELSE "" >>

\* collect_reasons_subplot going on to the flags of a geometry that is not valid
collect_reasons_subplot_no_short_circuit(row, min_subplot_area_size, max_subplot_area_size) ==
    IF is_none(row.geometry) THEN "Geometry missing"
    ELSE IF is_empty(row.geometry) THEN "Empty geometry"
    ELSE IF ~is_valid(row.geometry)
         THEN Join(FilterNone(<<"Invalid geometry">>
                   \o ReasonList(row, min_subplot_area_size, max_subplot_area_size)))
    ELSE Join(FilterNone(ReasonList(row, min_subplot_area_size, max_subplot_area_size)))

collect_reasons_subplot(row, min_subplot_area_size, max_subplot_area_size) ==
    IF is_none(row.geometry) THEN "Geometry missing"
    ELSE IF is_empty(row.geometry) THEN "Empty geometry"
    ELSE IF ~is_valid(row.geometry) THEN "Invalid geometry"
    ELSE Join(FilterNone(ReasonList(row, min_subplot_area_size, max_subplot_area_size)))

\* geom_valid taken from the geometry instead of from the reasons
GeomValidFromGeometry(row) == ~is_none(row.geometry) /\ is_valid(row.geometry)

GeomValidFromReasons(row) == Len(row.reasons) = 0

\* to_geojson: None for a missing geometry, else the FeatureCollection text of the
\* geometry with its id; the model keeps who it is about
to_geojson(geom, id) ==
    IF is_none(geom) THEN [none |-> TRUE, id |-> id]
    ELSE [none |-> FALSE, id |-> id]

assign_geom_valid_geojson(g, min_area, max_area) ==
    LET WithReasons(row) == Assign(row, "reasons", collect_reasons_subplot(row, min_area, max_area))
        WithValid(row) == Assign(row, "geom_valid", GeomValidFromReasons(row))
        WithGeojson(row) ==
            Assign(row, "geojson",
                   to_geojson(row.geometry,
                              IF Has(row, "subplot_id") THEN row.subplot_id ELSE "unknown"))
    IN MapRows(MapRows(MapRows(g, WithReasons), WithValid), WithGeojson)

(***************************************************************************)
(* The script variant (src/gt_check_functions.py, src/gt_check_akvo.py):   *)
(* reasons appended to a list, thresholds read from the configuration,     *)
(* only overlap_ids looked up before it is read.                           *)
(***************************************************************************)
RECURSIVE AppendIf(_, _)
AppendIf(reasons, conds) ==
    IF conds = <<>> THEN reasons
    ELSE AppendIf(IF conds[1].when THEN Append(reasons, conds[1].reason) ELSE reasons,
                  Tail(conds))

script_collect_reasons_subplot(row) ==
    IF is_none(row.geometry) THEN "Geometry missing"
    ELSE IF is_empty(row.geometry) THEN "Empty geometry"
    ELSE IF ~is_valid(row.geometry) THEN "Invalid geometry"
    ELSE Join(AppendIf(<<>>,
        << [when |-> Has(row, "overlap_ids") /\ Len(row.overlap_ids) > 0,
            reason |-> "Overlapping polygons"],
           [when |-> row.duplicate_id, reason |-> "Duplicate plot id"],
           [when |-> ~row.in_country, reason |-> "Boundary not in country"],
           [when |-> ~row.in_radius, reason |-> "Plot outside of radius"],
           [when |-> row.area_m2 < MIN_SUBPLOT_AREA_SIZE, reason |-> "Plot too small"],
           [when |-> MAX_SUBPLOT_AREA_SIZE < row.area_m2, reason |-> "Plot too big"],
           [when |-> row.nr_vertices_too_small, reason |-> "Nr vertices <= 3"],
           [when |-> row.protruding_ratio_too_big, reason |-> "Plot is protruding"] >>))

\* the .assign(reasons=..., valid=..., geojson=...) of gt_check_akvo.py
script_assign_reasons_valid(g) ==
    LET WithReasons(row) == Assign(row, "reasons", script_collect_reasons_subplot(row))
        WithValid(row) == Assign(row, "valid", Len(row.reasons) = 0)
        WithGeojson(row) == Assign(row, "geojson", to_geojson(row.geometry, row.subplot_id))
    IN MapRows(MapRows(MapRows(g, WithReasons), WithValid), WithGeojson)

(***************************************************************************)
(* THE METRIC STAGES of GeometryValidator.validate_geometry.  A float      *)
(* column holds [nan, val]: a comparison with NaN is false.                *)
(***************************************************************************)
NaN == [nan |-> TRUE, val |-> 0]
Float(v) == [nan |-> FALSE, val |-> v]

\* length_width_ratio(geom, geodisic=True), x 100; None for an empty geometry
length_width_ratio(g) == IF is_empty(g) THEN NaN ELSE Float(Shape(g.shape).lw_x100)

validate_length_width_ratio(g, threshold_length_width) ==
    LET Ratio(row) == Assign(row, "length_width_ratio", length_width_ratio(row.geometry))
        TooBig(row) ==
            Assign(row, "length_width_ratio_too_big",
                   ~row.length_width_ratio.nan
                   /\ row.length_width_ratio.val > threshold_length_width)
    IN MapRows(MapRows(g, Ratio), TooBig)

\* the selection below, had isna() also been true of an empty geometry
GeometryIsNaOrEmpty(row) == is_none(row.geometry) \/ is_empty(row.geometry)

\* gdf[~gdf.geometry.isna()]: isna() is true of a missing geometry only
GeometryIsNa(row) == is_none(row.geometry)

\* mrr_ratio = minimum_rotated_rectangle_m2 / area_m2, x 100; 0 / 0 is NaN
mrr_ratio(g) == IF area(g) = 0 THEN NaN ELSE Float(Shape(g.shape).mrr_pct)

add_protruding_ratio(g) ==
    LET NotNa(row) == ~GeometryIsNa(row)
        Ratio(row) == Assign(row, "mrr_ratio", mrr_ratio(row.geometry))
    IN MapRows(FilterRows(g, NotNa), Ratio)

validate_protruding_ratio(g, threshold_protruding_ratio) ==
    LET TooBig(row) ==
            Assign(row, "protruding_ratio_too_big",
                   ~row.mrr_ratio.nan /\ row.mrr_ratio.val > threshold_protruding_ratio)
    IN MapRows(add_protruding_ratio(g), TooBig)

\* calculate_area(geodisic=True): 0 for a missing geometry
calculate_area(g) ==
    LET Area(row) ==
            Assign(row, "area_m2",
                   IF is_none(row.geometry) THEN 0 ELSE area(row.geometry))
    IN MapRows(g, Area)

\* nr_vertices, had it left the closing point of the ring out of the count
nr_vertices_without_closing_point(g) ==
    IF is_none(g) \/ is_empty(g) THEN Float(0)
    ELSE IF isinstance(g, "Polygon") THEN Float(Len(g.coords) - 1)
    ELSE NaN

\* nr_vertices: 0 for None or empty, the ring length of a Polygon, None otherwise
nr_vertices(g) ==
    IF is_none(g) \/ is_empty(g) THEN Float(0)
    ELSE IF isinstance(g, "Polygon") THEN Float(Len(g.coords))
    ELSE NaN

validate_nr_vertices(g, max_vertices) ==
    LET Count(row) == Assign(row, "nr_vertices", nr_vertices(row.geometry))
        Dropped(row) ==
            Assign(row, "vertices_dropped",
                   IF row.nr_vertices.nan THEN NaN
                   ELSE Float(row.original_vertices - row.nr_vertices.val))
        TooSmall(row) ==
            Assign(row, "nr_vertices_too_small",
                   ~row.nr_vertices.nan /\ row.nr_vertices.val <= max_vertices)
    IN MapRows(MapRows(MapRows(g, Count), Dropped), TooSmall)

\* all_points_in_radius: None (falsy, here FALSE) for a missing or invalid
\* geometry; the circle around an empty projection covers nothing
all_points_in_radius(g) ==
    IF ~is_none(g) /\ is_valid(g)
    THEN LET geom_utm == geom_to_utm(g)
         IN IF is_empty(geom_utm) THEN FALSE ELSE Shape(geom_utm.shape).in_radius
    ELSE FALSE

validate_within_radius(g) ==
    LET InRadius(row) == Assign(row, "in_radius", all_points_in_radius(row.geometry))
    IN MapRows(g, InRadius)

\* GeometryValidator.overlap_filter
overlap_filter(row) ==
    /\ row.in_country
    /\ row.in_radius
    /\ MIN_SUBPLOT_AREA_SIZE < row.area_m2
    /\ row.area_m2 < MAX_SUBPLOT_AREA_SIZE
    /\ ~row.protruding_ratio_too_big
    /\ ~row.nr_vertices_too_small

(***************************************************************************)
(* THE OVERLAP DETECTOR.  lib holds what the geometry library computes for *)
(* the batch: barea[i], the area of row i's geometry after the inward      *)
(* buffer, and inter[<<i, j>>] (i < j), the area of the intersection of    *)
(* the buffered geometries of rows i and j.                                *)
(***************************************************************************)
BufferedArea(g, lib, i) ==
    IF is_none(g[i].geometry) \/ is_empty(g[i].geometry) THEN 0 ELSE lib.barea[i]

IntersectionArea(g, lib, i, j) ==
    IF BufferedArea(g, lib, i) = 0 \/ BufferedArea(g, lib, j) = 0 THEN 0
    ELSE IF i = j THEN BufferedArea(g, lib, i)
    ELSE IF i < j THEN lib.inter[<<i, j>>] ELSE lib.inter[<<j, i>>]

\* the pairs kept by x[x[id_1] != x[id_2]], had it compared the rows themselves
PairKeptByRow(g, id_column, i, j) == i # j

PairKept(g, id_column, i, j) == g[i][id_column] # g[j][id_column]

\* the denominator of overlay_ratio, had it been the first row's area
MinAreaFirst(area_1, area_2) == area_1

MinArea(area_1, area_2) == IF area_1 <= area_2 THEN area_1 ELSE area_2

\* overlap = min_overlap < overlay_ratio, had the comparison admitted equality
ExceedsMinOverlapOrEqual(min_overlap, inter, min_area) == min_overlap * min_area <= 100 * inter

\* overlap = min_overlap < overlay_ratio, with overlay_ratio = inter / min_area and
\* min_overlap in percent
ExceedsMinOverlap(min_overlap, inter, min_area) == min_overlap * min_area < 100 * inter

\* check_overlap of src/utils/geometry_utils.py on two geometries: whether they
\* overlap, with the threshold 0.5 written into it
check_overlap(geom1, geom2, area1, area2, inter) ==
    IF is_empty(geom1) \/ is_empty(geom2) THEN FALSE
    ELSE IF inter > 0 /\ MinArea(area1, area2) > 0
         THEN 2 * inter > MinArea(area1, area2)
         ELSE FALSE

\* round(decimals=2) of a ratio, as a whole percentage
RoundedPercent(num, den) == (200 * num + den) \div (2 * den)

\* The rows of df_overlap for left row i, in the order of the right rows.
RECURSIVE OverlapRowsOf(_, _, _, _, _, _, _)
OverlapRowsOf(g, lib, cand, id_column, min_overlap, i, j) ==
    IF j > Len(g) THEN <<>>
    ELSE LET inter == IntersectionArea(g, lib, i, j)
             min_area == MinArea(BufferedArea(g, lib, i), BufferedArea(g, lib, j))
             here ==
                 IF /\ j \in cand
                    /\ inter > 0
                    /\ PairKept(g, id_column, i, j)
                    /\ ExceedsMinOverlap(min_overlap, inter, min_area)
                 THEN << [id_1 |-> g[i][id_column], id_2 |-> g[j][id_column],
                          overlay_ratio |-> RoundedPercent(inter, min_area)] >>
                 ELSE <<>>
         IN here \o OverlapRowsOf(g, lib, cand, id_column, min_overlap, i, j + 1)

RECURSIVE OverlapRows(_, _, _, _, _, _)
OverlapRows(g, lib, cand, id_column, min_overlap, i) ==
    IF i > Len(g) THEN <<>>
    ELSE (IF i \in cand THEN OverlapRowsOf(g, lib, cand, id_column, min_overlap, i, 1)
          ELSE <<>>)
         \o OverlapRows(g, lib, cand, id_column, min_overlap, i + 1)

\* groupby(id_1): the id_2 of the group joined, and the largest ratio of the group
GroupIds(df_overlap, id) ==
    LET InGroup(r) == r.id_1 = id
        grp == SelectSeq(df_overlap, InGroup)
    IN Join([k \in 1..Len(grp) |-> grp[k].id_2])

GroupMax(df_overlap, id) ==
    LET ratios == {df_overlap[k].overlay_ratio :
                      k \in {m \in 1..Len(df_overlap) : df_overlap[m].id_1 = id}}
    IN CHOOSE r \in ratios : \A q \in ratios : q <= r

\* a missing value of an object column
NullStr == "<null>"

\* Series.fillna(fill), had it left the missing values in place
fillna_skipped(v, fill) == v

\* Series.fillna(fill) on one value of an object column
fillna(v, fill) == IF v = NullStr THEN fill ELSE v

\* the merge, had it been made onto the working copy whose geometries were buffered
\* inwards (a smaller geometry in each non-empty row) and not onto gdf
LeftMergeOntoBuffered(g, df_overlap, id_column) ==
    LET ids == {df_overlap[k].id_1 : k \in 1..Len(df_overlap)}
        Shrunk(geom) ==
            IF is_none(geom) \/ is_empty(geom) THEN geom
            ELSE [geom EXCEPT !.area = IF @ > 100 THEN @ - 100 ELSE 0]
        Joined(row) ==
            IF row[id_column] \in ids
            THEN Assign(Assign(Assign(row,
                    "overlap_ids", GroupIds(df_overlap, row[id_column])),
                    "percentage_overlap", Float(GroupMax(df_overlap, row[id_column]))),
                    "geometry", Shrunk(row.geometry))
            ELSE Assign(Assign(Assign(row,
                    "overlap_ids", NullStr),
                    "percentage_overlap", NaN),
                    "geometry", Shrunk(row.geometry))
    IN MapRows(g, Joined)

\* gdf.merge(df_overlap_all, how="left") on the id column: a row whose id is not in
\* df_overlap_all gets missing values
LeftMerge(g, df_overlap, id_column) ==
    LET ids == {df_overlap[k].id_1 : k \in 1..Len(df_overlap)}
        Joined(row) ==
            IF row[id_column] \in ids
            THEN Assign(Assign(row,
                    "overlap_ids", GroupIds(df_overlap, row[id_column])),
                    "percentage_overlap", Float(GroupMax(df_overlap, row[id_column])))
            ELSE Assign(Assign(row,
                    "overlap_ids", NullStr),
                    "percentage_overlap", NaN)
    IN MapRows(g, Joined)

\* the merge, then .assign(overlap_ids=fillna(""), percentage_overlap_float=astype(float),
\* percentage_overlap=percentage_overlap_float.fillna(""))
MergeOverlap(g, df_overlap, id_column) ==
    LET FillIds(row) == Assign(row, "overlap_ids", fillna(row.overlap_ids, ""))
        AsFloat(row) == Assign(row, "percentage_overlap_float", row.percentage_overlap)
        FillPercentage(row) ==
            Assign(row, "percentage_overlap",
                   IF row.percentage_overlap_float.nan THEN [blank |-> TRUE, val |-> 0]
                   ELSE [blank |-> FALSE, val |-> row.percentage_overlap_float.val])
    IN MapRows(MapRows(MapRows(LeftMerge(g, df_overlap, id_column), FillIds), AsFloat),
               FillPercentage)

validate_overlap(g, id_column, min_overlap, Filter(_), lib) ==
    LET cand == {i \in 1..Len(g) : Filter(g[i])}
        df_overlap == OverlapRows(g, lib, cand, id_column, min_overlap, 1)
    IN MergeOverlap(g, df_overlap, id_column)

\* min_overlap of the script pipeline's call of validate_overlap, in percent
SCRIPT_MIN_OVERLAP == 10

\* The script variant (src/gt_check_functions.py): the same overlay and merge, then
\* .assign(overlap_ids=fillna("")) alone; percentage_overlap stays a float column.
script_validate_overlap(g, id_column, min_overlap, Filter(_), lib) ==
    LET cand == {i \in 1..Len(g) : Filter(g[i])}
        df_overlap == OverlapRows(g, lib, cand, id_column, min_overlap, 1)
        FillIds(row) == Assign(row, "overlap_ids", fillna(row.overlap_ids, ""))
    IN MapRows(LeftMerge(g, df_overlap, id_column), FillIds)

\* GeometryValidator.validate_geometry
validate_geometry(g, lib) ==
    IF \A i \in 1..Len(g) : is_empty(g[i].geometry) THEN g
    ELSE LET g1 == validate_length_width_ratio(g, THRESHOLD_LENGTH_WIDTH)
             g2 == validate_protruding_ratio(g1, THRESHOLD_PROTRUDING_RATIO)
             InCountry(row) == Assign(row, "in_country", TRUE)
             DuplicateId(row) == Assign(row, "duplicate_id", FALSE)
             g3 == MapRows(MapRows(g2, InCountry), DuplicateId)
             g4 == calculate_area(g3)
             g5 == validate_nr_vertices(g4, MAX_VERTICES)
             g6 == validate_within_radius(g5)
         IN validate_overlap(g6, "subplot_id", MIN_OVERLAP, overlap_filter, lib)

(***************************************************************************)
(* Coordinate cells.                                                       *)
(***************************************************************************)
NullCell == [isna |-> TRUE, len |-> 0, vertices |-> <<>>, kinds |-> <<>>]

\* a cell holding a string: its length, and its ";"-separated tokens
Cell(l, ks) == [isna |-> FALSE, len |-> l, vertices |-> Vertices(ks), kinds |-> ks]

NotParsed == [raised |-> FALSE, parsedAny |-> FALSE, coordinates |-> <<>>,
              skip |-> 0, geom |-> EmptyPolygon]

(***************************************************************************)
(* INPUT GEOMETRIES.  The parser hands polygons (possibly empty) to the    *)
(* repair chain.  For a polygon that is not valid, lib lists what the      *)
(* library makes of it.                                                    *)
(***************************************************************************)
Quad(a) == ValidPolygon(5, a, FALSE, "normal", "compact")

\* a valid concave quadrilateral: its hull is larger than it is
ConcaveQuad ==
    Geom("Polygon", Ring(5), TRUE, 500, <<>>, FALSE, "normal", "compact",
         [convex_hull |-> Quad(600)])

ValidInputs ==
    {Quad(a) : a \in {100, 450, 600, 750, 800}}
    \cup {ValidPolygon(n, 600, FALSE, "normal", "compact") : n \in {4, 7}}
    \cup {ValidPolygon(5, 600, TRUE, "normal", "compact")}
    \cup {ValidPolygon(5, 600, FALSE, place, "compact") :
              place \in {"highlat", "polar", "southedge"}}
    \cup {ValidPolygon(5, 600, FALSE, "normal", shape) : shape \in {"spiky", "wide"}}
    \cup {ConcaveQuad}
    \* polygons that simplify() shortens, into a valid and into an invalid ring
    \cup {Geom("Polygon", Ring(7), TRUE, 600, <<>>, FALSE, "normal", "compact",
               [simplify |-> Quad(600)]),
          Geom("Polygon", Ring(7), TRUE, 610, <<>>, FALSE, "normal", "compact",
               [simplify |-> InvalidPolygon(CrossedRing(5), 0, [buffer0 |-> EmptyPolygon])])}
    \* a polygon that repeats a vertex: set() reorders what is left of its ring
    \cup {Geom("Polygon", <<Ring(5)[1], Ring(5)[2], Ring(5)[2], Ring(5)[3], Ring(5)[4],
                            Ring(5)[5]>>,
               TRUE, 600, <<>>, FALSE, "normal", "compact",
               [deduped |-> InvalidPolygon(CrossedRing(5), 0,
                                           [convex_hull |-> Quad(600),
                                            buffer0 |-> EmptyPolygon])])}

BowtieInputs ==
    {InvalidPolygon(CrossedRing(5), 0, [convex_hull |-> hull, buffer0 |-> EmptyPolygon,
                                        representative_point |-> PointBuffer]) :
        hull \in {Quad(600), LineStringGeom, PointGeom}}

Buffer0Results ==
    {ValidPolygon(6, a, FALSE, "normal", "compact") : a \in {994, 995, 1000, 1004, 1005}}
    \cup {MultiPolygonOf(<<Quad(1000)>>),
          MultiPolygonOf(<<Quad(500), Quad(500)>>),
          MultiPolygonOf(<<Quad(100), Quad(900)>>),
          MultiPolygonOf(<<Quad(901), Quad(99)>>)}

InvalidInputs ==
    BowtieInputs
    \cup {InvalidPolygon(CrossedRing(7), 1000, [buffer0 |-> b]) : b \in Buffer0Results}
    \cup {InvalidPolygon(CrossedRing(7), 1000,
                         [orient |-> ValidPolygon(7, 1000, FALSE, "normal", "compact"),
                          buffer0 |-> Quad(300)]),
          InvalidPolygon(CrossedRing(7), 1000,
                         [rewind |-> ValidPolygon(7, 1000, FALSE, "normal", "compact"),
                          buffer0 |-> Quad(300)]),
          InvalidPolygon(CrossedRing(7), 0,
                         [buffer0 |-> EmptyPolygon, representative_point |-> PointBuffer]),
          InvalidPolygon(<<Ring(4)[1], Ring(4)[2], Ring(4)[1], Ring(4)[1]>>, 0,
                         [buffer0 |-> EmptyPolygon, representative_point |-> PointBuffer])}

FixInputs == {EmptyPolygon} \cup ValidInputs \cup InvalidInputs

\* the inputs of the whole pipeline: a selection of the above
PipelineInputs ==
    {EmptyPolygon, Quad(600), Quad(100), Quad(450),
     ValidPolygon(4, 600, FALSE, "normal", "compact"),
     ValidPolygon(5, 600, FALSE, "normal", "wide"),
     InvalidPolygon(CrossedRing(5), 0, [convex_hull |-> Quad(600), buffer0 |-> EmptyPolygon,
                                        representative_point |-> PointBuffer]),
     InvalidPolygon(CrossedRing(7), 1000, [buffer0 |-> Quad(300)]),
     InvalidPolygon(CrossedRing(7), 1000,
                    [buffer0 |-> MultiPolygonOf(<<Quad(500), Quad(500)>>)])}

Ids == {"a", "b"}

Pairs(n) == {p \in (1..n) \X (1..n) : p[1] < p[2]}

NoGeos == [barea |-> <<>>, inter |-> <<>>]

(***************************************************************************)
(* THE PIPELINE of process_excel_file: fix_geometry step by step over the  *)
(* whole batch, then validate_geometry, then assign_geom_valid_geojson.    *)
(***************************************************************************)
InitRows(n, inputs) ==
    {[i \in 1..n |-> [subplot_id |-> ids[i], geometry |-> gs[i]]] :
        ids \in [1..n -> Ids], gs \in [1..n -> inputs]}

Init ==
    /\ pc = "parsed"
    /\ polygon_string = NullCell
    /\ accuracy_zero_valid = FALSE
    /\ parsed = NotParsed
    /\ gdf \in InitRows(NRows, PipelineInputs)
    /\ geos \in {[barea |-> [i \in 1..NRows |-> 400], inter |-> x] :
                    x \in [Pairs(NRows) -> {0, 300}]}

\* One statement gdf["geometry"] = gdf.geometry.apply(f): an exception leaves gdf as it was.
ApplyToGeometry(name, from, to) ==
    /\ pc = from
    /\ LET new == [i \in 1..Len(gdf) |-> FixStepFn(name, gdf[i].geometry)]
       IN IF \E i \in 1..Len(gdf) : new[i] = RAISE
          THEN /\ pc' = "raised"
               /\ gdf' = gdf
          ELSE /\ pc' = to
               /\ gdf' = [i \in 1..Len(gdf) |-> Assign(gdf[i], "geometry", new[i])]
    /\ UNCHANGED <<polygon_string, accuracy_zero_valid, parsed, geos>>

\* original_vertices, then remove_duplicate_vertices
RemoveDuplicateVertices ==
    /\ pc = "parsed"
    /\ LET OriginalVertices(row) ==
               Assign(row, "original_vertices",
                      IF row.geometry.type = "Polygon" THEN Len(row.geometry.coords) ELSE 0)
           counted == MapRows(gdf, OriginalVertices)
           new == [i \in 1..Len(gdf) |-> FixStepFn("dedupe", gdf[i].geometry)]
       IN IF \E i \in 1..Len(gdf) : is_none(gdf[i].geometry) \/ new[i] = RAISE
          THEN /\ pc' = "raised"
               /\ gdf' = gdf
          ELSE /\ pc' = "dedupe"
               /\ gdf' = [i \in 1..Len(gdf) |-> Assign(counted[i], "geometry", new[i])]
    /\ UNCHANGED <<polygon_string, accuracy_zero_valid, parsed, geos>>

FixSelfIntersectingSquare == ApplyToGeometry("hull", "dedupe", "hull")
FixWithOrient == ApplyToGeometry("orient", "hull", "orient")
FixWithRewind == ApplyToGeometry("rewind", "orient", "rewind")
FixWithZeroBuffer == ApplyToGeometry("zero_buffer", "rewind", "zero_buffer")
FixWith2dPolygon == ApplyToGeometry("force_2d", "zero_buffer", "force_2d")
RejectAreaLessTypes == ApplyToGeometry("type_rejection", "force_2d", "type_rejection")
ReplaceMultipolygons == ApplyToGeometry("multipolygons", "type_rejection", "multipolygons")
SimplifyGeometry == ApplyToGeometry("simplify", "multipolygons", "simplify")
ReplaceAreaZero == ApplyToGeometry("area_zero", "simplify", "area_zero")
ReplaceNoneGeometries == ApplyToGeometry("none", "area_zero", "none")
ReplaceOutOfBoundGeometries == ApplyToGeometry("out_of_bound", "none", "out_of_bound")
ReplaceInvalid == ApplyToGeometry("invalid", "out_of_bound", "fixed")

ValidateGeometry ==
    /\ pc = "fixed"
    /\ gdf' = validate_geometry(gdf, geos)
    /\ pc' = "validated"
    /\ UNCHANGED <<polygon_string, accuracy_zero_valid, parsed, geos>>

AssignGeomValidGeojson ==
    /\ pc = "validated"
    /\ gdf' = assign_geom_valid_geojson(gdf, MIN_SUBPLOT_AREA_SIZE, MAX_SUBPLOT_AREA_SIZE)
    /\ pc' = "done"
    /\ UNCHANGED <<polygon_string, accuracy_zero_valid, parsed, geos>>

FixNext ==
    \/ RemoveDuplicateVertices
    \/ FixSelfIntersectingSquare
    \/ FixWithOrient
    \/ FixWithRewind
    \/ FixWithZeroBuffer
    \/ FixWith2dPolygon
    \/ RejectAreaLessTypes
    \/ ReplaceMultipolygons
    \/ SimplifyGeometry
    \/ ReplaceAreaZero
    \/ ReplaceNoneGeometries
    \/ ReplaceOutOfBoundGeometries
    \/ ReplaceInvalid

Next == FixNext \/ ValidateGeometry \/ AssignGeomValidGeojson

Spec == Init /\ [][Next]_vars

(***************************************************************************)
(* The repair chain alone, on every input geometry.                        *)
(***************************************************************************)
InitFix ==
    /\ pc = "parsed"
    /\ polygon_string = NullCell
    /\ accuracy_zero_valid = FALSE
    /\ parsed = NotParsed
    /\ gdf \in {<<[subplot_id |-> "a", geometry |-> g]>> : g \in FixInputs}
    /\ geos = NoGeos

SpecFix == InitFix /\ [][FixNext]_vars

(***************************************************************************)
(* The overlap detector alone, on batches that went through the metric     *)
(* stages.  Rows differ in their id and in in_radius, which decides        *)
(* whether overlap_filter keeps them.                                      *)
(***************************************************************************)
MetricRow(id, in_radius) ==
    [subplot_id |-> id, geometry |-> Quad(600), original_vertices |-> 5,
     in_country |-> TRUE, duplicate_id |-> FALSE, in_radius |-> in_radius,
     area_m2 |-> 600, protruding_ratio_too_big |-> FALSE,
     nr_vertices_too_small |-> FALSE]

InitOverlap ==
    /\ pc = "metrics"
    /\ polygon_string = NullCell
    /\ accuracy_zero_valid = FALSE
    /\ parsed = NotParsed
    /\ gdf \in {[i \in 1..NOverlapRows |-> MetricRow(ids[i], r[i])] :
                   ids \in [1..NOverlapRows -> Ids], r \in [1..NOverlapRows -> BOOLEAN]}
    /\ geos \in {[barea |-> [i \in 1..NOverlapRows |-> IF i = 1 THEN b ELSE 600],
                  inter |-> [p \in Pairs(NOverlapRows) |->
                                IF p = <<1, 2>> THEN x ELSE IF y[p] THEN 400 ELSE 0]] :
                    b \in {400, 600}, x \in {0, 250, 300, 400},
                    y \in [Pairs(NOverlapRows) -> BOOLEAN]}

ValidateOverlap ==
    /\ pc = "metrics"
    /\ gdf' = validate_overlap(gdf, "subplot_id", MIN_OVERLAP, overlap_filter, geos)
    /\ pc' = "overlap"
    /\ UNCHANGED <<polygon_string, accuracy_zero_valid, parsed, geos>>

AssignAfterOverlap ==
    /\ pc = "overlap"
    /\ gdf' = assign_geom_valid_geojson(gdf, MIN_SUBPLOT_AREA_SIZE, MAX_SUBPLOT_AREA_SIZE)
    /\ pc' = "done"
    /\ UNCHANGED <<polygon_string, accuracy_zero_valid, parsed, geos>>

\* the validate_overlap step of the script pipeline (src/gt_check_akvo.py)
ValidateOverlapScript ==
    /\ pc = "metrics"
    /\ gdf' = script_validate_overlap(gdf, "subplot_id", SCRIPT_MIN_OVERLAP, overlap_filter,
                                      geos)
    /\ pc' = "overlap_script"
    /\ UNCHANGED <<polygon_string, accuracy_zero_valid, parsed, geos>>

NextOverlap == ValidateOverlap \/ ValidateOverlapScript \/ AssignAfterOverlap

SpecOverlap == InitOverlap /\ [][NextOverlap]_vars

(***************************************************************************)
(* The reason collector alone, on one row of every geometry state and      *)
(* every combination of the flags.                                         *)
(***************************************************************************)
GeometryStates ==
    {NoneGeom, EmptyPolygon, Quad(600),
     InvalidPolygon(CrossedRing(5), 0, [buffer0 |-> EmptyPolygon])}

FlagRows ==
    {[subplot_id |-> "a", geometry |-> g, overlap_ids |-> o, duplicate_id |-> d,
      in_country |-> c, in_radius |-> r, area_m2 |-> a,
      nr_vertices_too_small |-> v, protruding_ratio_too_big |-> p] :
        g \in GeometryStates, o \in {"", "b", "b;c"}, d \in BOOLEAN, c \in BOOLEAN,
        r \in BOOLEAN, a \in {100, 450, 600, 750, 800}, v \in BOOLEAN, p \in BOOLEAN}

InitReasons ==
    /\ pc = "validated"
    /\ polygon_string = NullCell
    /\ accuracy_zero_valid = FALSE
    /\ parsed = NotParsed
    /\ gdf \in {<<row>> : row \in FlagRows}
    /\ geos = NoGeos

AssignScript ==
    /\ pc = "validated"
    /\ gdf' = script_assign_reasons_valid(gdf)
    /\ pc' = "done_script"
    /\ UNCHANGED <<polygon_string, accuracy_zero_valid, parsed, geos>>

NextReasons == AssignGeomValidGeojson \/ AssignScript

SpecReasons == InitReasons /\ [][NextReasons]_vars

(***************************************************************************)
(* The parser alone: Init draws a cell, the actions apply the parser.      *)
(***************************************************************************)
InitParse ==
    /\ pc = "raw"
    /\ \/ polygon_string = NullCell
       \/ \E n \in 1..MaxTokens : \E ks \in [1..n -> TokenKinds] :
              \E l \in {100, EXCEL_CELL_LIMIT} : polygon_string = Cell(l, ks)
    /\ accuracy_zero_valid \in BOOLEAN
    /\ parsed = NotParsed
    /\ gdf = <<>>
    /\ geos = NoGeos

ParseCore ==
    /\ pc = "raw"
    /\ parsed' = geom_from_scto_str(polygon_string, GPS_ACCURACY_THRESHOLD,
                                    accuracy_zero_valid)
    /\ pc' = "parsed_core"
    /\ UNCHANGED <<polygon_string, accuracy_zero_valid, gdf, geos>>

ParseLoader ==
    /\ pc = "raw"
    /\ parsed' = loader_geom_from_scto_str(polygon_string, GPS_ACCURACY_THRESHOLD,
                                           accuracy_zero_valid)
    /\ pc' = "parsed_loader"
    /\ UNCHANGED <<polygon_string, accuracy_zero_valid, gdf, geos>>

NextParse == ParseCore \/ ParseLoader

SpecParse == InitParse /\ [][NextParse]_vars

(***************************************************************************)
(* PROPERTIES OF THE PARSER (under SpecParse).                             *)
(***************************************************************************)
Returned == pc \in {"parsed_core", "parsed_loader"} /\ ~parsed.raised

C2_NeverRaisesAndCountsMalformed ==
    (pc = "parsed_core" /\ ~polygon_string.isna) =>
        /\ ~parsed.raised
        /\ parsed.parsedAny =>
               parsed.skip + Len(parsed.coordinates) = Len(polygon_string.vertices)

(***************************************************************************)
(* PROPERTIES OF THE REASON COLLECTOR (under SpecReasons).                 *)
(***************************************************************************)
Assigned == pc \in {"done", "done_script"}

ValidFlagOf(row) == IF pc = "done_script" THEN row.valid ELSE row.geom_valid

\* C3: once reasons and the validity flag are assigned, every record's flag is true
\* exactly when its reasons string is empty.
C3_ValidIffNoReasons ==
    Assigned => \A i \in 1..Len(gdf) : ValidFlagOf(gdf[i]) <=> gdf[i].reasons = ""

\* C3 witness: a record whose geometry is valid but which carries a reason has been
\* flagged not valid, and one with no reason has been flagged valid.
C3_ValidGeometryFlaggedByReason ==
    /\ pc = "done"
    /\ ~is_none(gdf[1].geometry) /\ is_valid(gdf[1].geometry)
    /\ gdf[1].reasons = "Plot too small"
    /\ ~gdf[1].geom_valid

\* C4: a record whose geometry is None, empty or not valid gets the single reason
\* "Geometry missing", "Empty geometry" or "Invalid geometry", whatever its flags say.
C4_ShortCircuitOnBadGeometry ==
    Assigned => \A i \in 1..Len(gdf) :
        LET row == gdf[i]
        IN /\ is_none(row.geometry) => row.reasons = "Geometry missing"
           /\ (~is_none(row.geometry) /\ is_empty(row.geometry)) =>
                  row.reasons = "Empty geometry"
           /\ (~is_none(row.geometry) /\ ~is_empty(row.geometry) /\ ~is_valid(row.geometry))
                  => row.reasons = "Invalid geometry"

\* C4 witness: a record with a geometry that is not valid and with flags that would
\* each add a reason has got "Invalid geometry" alone.
C4_InvalidGeometryWithFlagsSet ==
    /\ pc = "done"
    /\ ~is_none(gdf[1].geometry) /\ ~is_empty(gdf[1].geometry) /\ ~is_valid(gdf[1].geometry)
    /\ gdf[1].overlap_ids # "" /\ gdf[1].duplicate_id /\ ~gdf[1].in_country
    /\ gdf[1].area_m2 > MAX_SUBPLOT_AREA_SIZE
    /\ gdf[1].reasons = "Invalid geometry"

ReasonOrder ==
    <<"Overlapping polygons", "Duplicate plot id", "Boundary not in country",
      "Plot outside of radius", "Plot too small", "Plot too big", "Nr vertices <= 3",
      "Plot is protruding">>

Triggered(row, reason) ==
    CASE reason = "Overlapping polygons" -> row.overlap_ids # ""
      [] reason = "Duplicate plot id" -> row.duplicate_id
      [] reason = "Boundary not in country" -> ~row.in_country
      [] reason = "Plot outside of radius" -> ~row.in_radius
      [] reason = "Plot too small" -> row.area_m2 < MIN_SUBPLOT_AREA_SIZE
      [] reason = "Plot too big" -> row.area_m2 > MAX_SUBPLOT_AREA_SIZE
      [] reason = "Nr vertices <= 3" -> row.nr_vertices_too_small
      [] reason = "Plot is protruding" -> row.protruding_ratio_too_big

\* C5: for a record with a valid, non-empty geometry the reasons string is the
\* ";"-join of exactly the triggered checks, in the fixed order of ReasonOrder.
C5_ReasonsAreTriggeredChecksInOrder ==
    Assigned => \A i \in 1..Len(gdf) :
        LET row == gdf[i]
            Holds(reason) == Triggered(row, reason)
        IN (~is_none(row.geometry) /\ ~is_empty(row.geometry) /\ is_valid(row.geometry))
               => row.reasons = Join(SelectSeq(ReasonOrder, Holds))

\* C5 witness: a valid geometry with seven checks triggered carries all seven, in order.
C5_SevenReasonsInOrder ==
    /\ pc = "done"
    /\ ~is_none(gdf[1].geometry) /\ is_valid(gdf[1].geometry)
    /\ gdf[1].reasons = "Overlapping polygons;Duplicate plot id;Boundary not in country;"
                        \o "Plot outside of radius;Plot too small;Nr vertices <= 3;"
                        \o "Plot is protruding"

(***************************************************************************)
(* PROPERTIES OF THE PIPELINE (under Spec).                                *)
(***************************************************************************)
IdsOf(g) == [i \in 1..Len(g) |-> g[i].subplot_id]

\* a record that entered as a polygon with a ring and whose geometry is empty now
BecameEmpty(row) ==
    Has(row, "original_vertices") /\ row.original_vertices > 0 /\ is_empty(row.geometry)

\* C6: no step of fix_geometry, validate_geometry or assign_geom_valid_geojson deletes
\* (or adds) a record: the ids after every step are the ids before it; and a record
\* whose geometry became empty during repair ends with reasons "Empty geometry" and
\* geom_valid false.
C6_NoRecordDeleted ==
    [][ /\ IdsOf(gdf') = IdsOf(gdf)
        /\ pc' = "done" =>
               \A i \in 1..Len(gdf') :
                   BecameEmpty(gdf'[i]) =>
                       gdf'[i].reasons = "Empty geometry" /\ ~gdf'[i].geom_valid ]_vars

\* C6 witness: at the end of the pipeline, a record emptied by the repair stands next to
\* a record that went through every validation, with its reason and its flag.
C6_EmptiedRecordReported ==
    /\ pc = "done"
    /\ BecameEmpty(gdf[1])
    /\ gdf[1].reasons = "Empty geometry"
    /\ ~gdf[1].geom_valid
    /\ Len(gdf) = NRows
    /\ ~is_empty(gdf[2].geometry)
    /\ Has(gdf[1], "overlap_ids")

(***************************************************************************)
(* PROPERTIES OF THE REPAIR CHAIN (under SpecFix).                         *)
(***************************************************************************)
StepDone == IF pc = "fixed" THEN "invalid" ELSE pc

\* C7 as stated: fix_geometry applied to its own output leaves every geometry as it
\* is, and every step applied to its own output returns that output.
C7_RepairIsIdempotent ==
    /\ pc = "fixed" =>
           \A i \in 1..Len(gdf) : FixGeometry(gdf[i].geometry) = gdf[i].geometry
    /\ StepDone \in Range(FixOrder) =>
           \A i \in 1..Len(gdf) : FixStepFn(StepDone, gdf[i].geometry) = gdf[i].geometry

\* C8: a geometry that is valid before a step of the chain is valid after it, and the
\* hull, orient, rewind and zero-buffer steps hand a valid geometry on as it came.
C8_ValidStaysValid ==
    [][ \A i \in 1..Len(gdf) :
            (pc' # "raised" /\ is_valid(gdf[i].geometry)) =>
                /\ is_valid(gdf'[i].geometry)
                /\ pc' \in {"hull", "orient", "rewind", "zero_buffer"} =>
                       gdf'[i].geometry = gdf[i].geometry ]_vars

\* C8 witness: a valid concave five-coordinate polygon, whose hull differs from it, has
\* passed the hull, orient, rewind and zero-buffer steps and is what it was.
C8_ValidConcaveQuadUntouched ==
    /\ pc = "zero_buffer"
    /\ gdf[1].geometry = ConcaveQuad
    /\ Lib(ConcaveQuad, "convex_hull") # ConcaveQuad

(***************************************************************************)
(* PROPERTIES OF THE OVERLAP DETECTOR (under SpecOverlap).                 *)
(***************************************************************************)
\* str.split(";")
RECURSIVE Split(_)
Split(s) ==
    LET pos == {k \in 1..Len(s) : SubSeq(s, k, k) = ";"}
    IN IF pos = {} THEN <<s>>
       ELSE LET p == CHOOSE k \in pos : \A q \in pos : k <= q
            IN <<SubSeq(s, 1, p - 1)>> \o Split(SubSeq(s, p + 1, Len(s)))

OverlapIdsOf(row) == IF row.overlap_ids = "" THEN {} ELSE Range(Split(row.overlap_ids))

Merged == pc \in {"overlap", "done"}

\* C9: after validate_overlap, for any two records A and B of the batch, B's id is in
\* A's overlap_ids exactly when A's id is in B's overlap_ids.
C9_OverlapIsSymmetric ==
    Merged => \A i, j \in 1..Len(gdf) :
        gdf[j].subplot_id \in OverlapIdsOf(gdf[i])
            <=> gdf[i].subplot_id \in OverlapIdsOf(gdf[j])

\* C9 witness: two candidates of buffered areas 400 and 600 that share 250 (62.5% of
\* the smaller, 41.7% of the larger) list each other.
C9_UnequalAreasListEachOther ==
    /\ pc = "overlap"
    /\ geos.barea[1] = 400 /\ geos.barea[2] = 600 /\ geos.inter[<<1, 2>>] = 250
    /\ gdf[1].subplot_id = "a" /\ gdf[2].subplot_id = "b"
    /\ "b" \in OverlapIdsOf(gdf[1])
    /\ "a" \in OverlapIdsOf(gdf[2])

\* C10: after validate_overlap no record's overlap_ids contains the record's own id.
C10_NoSelfOverlap ==
    Merged => \A i \in 1..Len(gdf) : gdf[i].subplot_id \notin OverlapIdsOf(gdf[i])

\* C10 witness: two candidates that carry the same id and intersect each other, and
\* a third record of another id that they overlap too; they list the third only.
C10_SameIdPairNotListed ==
    /\ pc = "overlap"
    /\ gdf[1].subplot_id = "a" /\ gdf[2].subplot_id = "a" /\ gdf[3].subplot_id = "b"
    /\ gdf[1].in_radius /\ gdf[2].in_radius /\ gdf[3].in_radius
    /\ geos.inter[<<1, 2>>] = 300 /\ geos.inter[<<1, 3>>] = 400
    /\ OverlapIdsOf(gdf[1]) = {"b"}
    /\ OverlapIdsOf(gdf[2]) = {"b"}

\* the candidates of the batch, and the ratio test on the buffered areas of two rows
Candidates == {i \in 1..Len(gdf) : overlap_filter(gdf[i])}

RatioExceeds(i, j) ==
    LET a == geos.barea[i]
        b == geos.barea[j]
        x == IF i < j THEN geos.inter[<<i, j>>] ELSE geos.inter[<<j, i>>]
    IN 100 * x > MIN_OVERLAP * (IF a <= b THEN a ELSE b)

C12_FilteredOutNeverListed ==
    Merged => \A i \in 1..Len(gdf) :
        ~overlap_filter(gdf[i]) =>
            /\ gdf[i].overlap_ids = ""
            /\ \A j \in 1..Len(gdf) :
                   j # i => gdf[i].subplot_id \notin OverlapIdsOf(gdf[j])

\* whether some candidate carrying row i's id overlaps a candidate of another id by
\* more than m percent of the smaller buffered area
FlaggedAt(i, m) ==
    \E k, l \in Candidates :
        /\ gdf[k].subplot_id = gdf[i].subplot_id
        /\ gdf[l].subplot_id # gdf[i].subplot_id
        /\ LET a == geos.barea[k]
               b == geos.barea[l]
               x == IF k < l THEN geos.inter[<<k, l>>] ELSE geos.inter[<<l, k>>]
           IN 100 * x > m * (IF a <= b THEN a ELSE b)

WellFormed(parts) == Len(parts) = 4 /\ \A f \in 1..4 : parts[f].num

\* the statement's rule for one vertex: dropped when its accuracy is above the
\* threshold, or is zero while zero readings are not accepted
DroppedAsStated(parts, acc_m, zero_valid) ==
    parts[4].val > acc_m \/ (parts[4].val = 0 /\ ~zero_valid)

RECURSIVE SurvivorsAsStated(_, _, _, _)
SurvivorsAsStated(vertices, k, acc_m, zero_valid) ==
    IF k > Len(vertices) THEN <<>>
    ELSE LET rest == SurvivorsAsStated(vertices, k + 1, acc_m, zero_valid)
             parts == vertices[k]
         IN IF WellFormed(parts) /\ ~DroppedAsStated(parts, acc_m, zero_valid)
            THEN <<(<<parts[2].val, parts[1].val>>)>> \o rest
            ELSE rest

\* C14, as stated: when a parser returns, the vertices it kept are, in input order,
\* exactly the vertices whose accuracy is at most the threshold and is not a rejected
\* zero; a vertex whose accuracy equals the threshold is among them.
C14_AsStated_DroppedExactlyAboveThreshold ==
    (Returned /\ parsed.parsedAny) =>
        parsed.coordinates = SurvivorsAsStated(polygon_string.vertices, 1,
                                               GPS_ACCURACY_THRESHOLD, accuracy_zero_valid)

\* C14 restricted to the parser of src/core/gt_check_functions.py, where it holds
C14_CoreDropsExactlyAboveThreshold ==
    (pc = "parsed_core" /\ ~parsed.raised /\ parsed.parsedAny) =>
        parsed.coordinates = SurvivorsAsStated(polygon_string.vertices, 1,
                                               GPS_ACCURACY_THRESHOLD, accuracy_zero_valid)


(***************************************************************************)
(* PROPERTIES OF THE VALIDATION FLAGS (under Spec).                        *)
(***************************************************************************)
SharesId(i) == \E j \in 1..Len(gdf) : j # i /\ gdf[j].subplot_id = gdf[i].subplot_id

\* C15, as stated: once the batch is validated and its reasons are assigned, a record
\* whose id another record carries has duplicate_id true and, its geometry being
\* valid and not empty, "Duplicate plot id" among its reasons; a record whose id is
\* unique does not have that reason.
C15_AsStated_SharedIdIsDuplicate ==
    pc = "done" => \A i \in 1..Len(gdf) :
        LET dup == "Duplicate plot id" \in Range(Split(gdf[i].reasons))
        IN IF SharesId(i)
           THEN /\ Has(gdf[i], "duplicate_id") => gdf[i].duplicate_id
                /\ (~is_none(gdf[i].geometry) /\ ~is_empty(gdf[i].geometry)
                      /\ is_valid(gdf[i].geometry)) => dup
           ELSE ~dup


(***************************************************************************)
(* PROPERTIES OF THE AREA REASONS (under SpecReasons).                     *)
(***************************************************************************)
\* C16: for a record with a valid, non-empty geometry, "Plot too small" is among the
\* reasons exactly when area_m2 is below the minimum and "Plot too big" exactly when
\* it is above the maximum; an area equal to a bound gets neither, and no record gets
\* both.
C16_AreaReasonsAreStrict ==
    Assigned => \A i \in 1..Len(gdf) :
        LET row == gdf[i]
            rs == Range(Split(row.reasons))
        IN (~is_none(row.geometry) /\ ~is_empty(row.geometry) /\ is_valid(row.geometry))
               => /\ "Plot too small" \in rs <=> row.area_m2 < MIN_SUBPLOT_AREA_SIZE
                  /\ "Plot too big" \in rs <=> row.area_m2 > MAX_SUBPLOT_AREA_SIZE
                  /\ ~("Plot too small" \in rs /\ "Plot too big" \in rs)

\* C16 witness: a record whose only failing check is an area of 100 against the
\* minimum of 450 has the reasons "Plot too small" and nothing else.
C16_OnlyAreaOneHundredFails ==
    /\ pc = "done"
    /\ ~is_none(gdf[1].geometry) /\ ~is_empty(gdf[1].geometry) /\ is_valid(gdf[1].geometry)
    /\ gdf[1].area_m2 = 100 /\ MIN_SUBPLOT_AREA_SIZE = 450
    /\ gdf[1].overlap_ids = "" /\ ~gdf[1].duplicate_id /\ gdf[1].in_country
    /\ gdf[1].in_radius /\ ~gdf[1].nr_vertices_too_small
    /\ ~gdf[1].protruding_ratio_too_big
    /\ gdf[1].reasons = "Plot too small"


(***************************************************************************)
(* The first step of process_excel_file on a batch of coordinate cells:    *)
(* subplots_for_validation.apply(geom_from_scto_str, axis=1).  Nothing in  *)
(* process_excel_file catches what the parser raises.                      *)
(***************************************************************************)
BatchTokenKinds == {"acc5", "short", "badlon"}

InitBatch ==
    /\ pc = "batch_raw"
    /\ polygon_string = NullCell
    /\ accuracy_zero_valid = FALSE
    /\ parsed = NotParsed
    /\ \E ids \in [1..NRows -> Ids] :
           \E cells \in [1..NRows -> {NullCell} \cup
                             {Cell(100, ks) : ks \in [1..3 -> BatchTokenKinds]}] :
               gdf = [i \in 1..NRows |-> [subplot_id |-> ids[i], gt_subplot |-> cells[i]]]
    /\ geos = NoGeos

CreateGeometry ==
    /\ pc = "batch_raw"
    /\ LET new == [i \in 1..Len(gdf) |->
                      geom_from_scto_str(gdf[i].gt_subplot, GPS_ACCURACY_THRESHOLD, FALSE)]
       IN IF \E i \in 1..Len(gdf) : new[i].raised
          THEN /\ pc' = "batch_aborted"
               /\ gdf' = gdf
          ELSE /\ pc' = "batch_parsed"
               /\ gdf' = [i \in 1..Len(gdf) |-> Assign(gdf[i], "geometry", new[i].geom)]
    /\ UNCHANGED <<polygon_string, accuracy_zero_valid, parsed, geos>>

NextBatch == CreateGeometry

SpecBatch == InitBatch /\ [][NextBatch]_vars

\* C17, as stated: a malformed vertex token in one record's cell does not abort the
\* batch: once the geometries are created, every record of the batch has one (and so
\* goes on to get its reasons and its validity flag).
C17_AsStated_MalformedTokenIsIsolated ==
    pc # "batch_raw" => \A i \in 1..Len(gdf) : Has(gdf[i], "geometry")


(***************************************************************************)
(* PROPERTIES OF THE PARSER'S GUARDS (under SpecParse).                    *)
(***************************************************************************)
\* C18: on a null cell and on a cell of exactly 32767 characters the parser returns
\* the canonical empty polygon, without raising and without looking at any vertex
\* token; and a polygon it returns is built from at least 3 vertices.
C18_GuardedCellsGiveEmptyPolygon ==
    pc \in {"parsed_core", "parsed_loader"} =>
        /\ (polygon_string.isna \/ polygon_string.len = EXCEL_CELL_LIMIT) =>
               /\ ~parsed.raised
               /\ ~parsed.parsedAny
               /\ parsed.geom = EmptyPolygon
        /\ (~parsed.raised /\ ~is_empty(parsed.geom)) =>
               /\ Len(parsed.coordinates) >= 3
               /\ parsed.geom = PolygonOf(parsed.coordinates)

\* C18 witness: a cell of 32767 characters whose tokens would have raised has been
\* answered by the core parser with the empty polygon, no token read.
C18_CellLimitWithMalformedToken ==
    /\ pc = "parsed_core"
    /\ polygon_string.len = EXCEL_CELL_LIMIT
    /\ \E k \in 1..Len(polygon_string.kinds) : polygon_string.kinds[k] = "short"
    /\ ~parsed.raised /\ ~parsed.parsedAny
    /\ parsed.geom = EmptyPolygon


(***************************************************************************)
(* PROPERTIES OF SINGLE REPAIR STEPS (under SpecFix).                      *)
(***************************************************************************)
\* a ring without its closing point
OpenRing(coords) ==
    IF coords[1] = coords[Len(coords)] THEN SubSeq(coords, 1, Len(coords) - 1) ELSE coords

HasRepeats(s) == \E i, j \in 1..Len(s) : i < j /\ s[i] = s[j]

\* C19, as stated: after remove_duplicate_vertices a polygon that is not empty holds
\* each vertex of its ring once (the closing point apart); a ring that came with
\* repeated vertices has been reduced to its distinct vertices or to the empty polygon.
C19_AsStated_NoRepeatedVertexLeft ==
    pc = "dedupe" => \A i \in 1..Len(gdf) :
        LET g == gdf[i].geometry
        IN (~is_empty(g) /\ isinstance(g, "Polygon")) => ~HasRepeats(OpenRing(g.coords))


\* C20, as stated: the simplify step hands on the simplified geometry whenever that is
\* valid, and the geometry as it came only when it is empty or its simplification is
\* not valid (stated for the geometries that project to UTM).
C20_AsStated_SimplifiedWhenValid ==
    [][ pc' = "simplify" => \A i \in 1..Len(gdf) :
            LET g == gdf[i].geometry
            IN (~is_empty(g) /\ geom_to_utm_with_crs(g).tuple) =>
                   gdf'[i].geometry = IF is_valid(Lib(g, "simplify"))
                                      THEN Lib(g, "simplify") ELSE g ]_vars


(***************************************************************************)
(* PROPERTIES OF THE ORDER OF THE PIPELINE (under Spec).                   *)
(***************************************************************************)
\* the positions of fix_geometry, from the batch as parsed to the batch as repaired
ChainPositions ==
    <<"parsed", "dedupe", "hull", "orient", "rewind", "zero_buffer", "force_2d",
      "type_rejection", "multipolygons", "simplify", "area_zero", "none",
      "out_of_bound", "fixed">>

\* the k-th repair step of the statement, on one geometry
StepAsListed(k, g) ==
    CASE k = 1  -> remove_duplicate_vertices(g)
      [] k = 2  -> fix_self_intersecting_square(g)
      [] k = 3  -> fix_with_orient(g)
      [] k = 4  -> fix_with_rewind(g)
      [] k = 5  -> fix_with_zero_buffer(g)
      [] k = 6  -> fix_with_2d_polygon(g)
      [] k = 7  -> reject_area_less_types(g)
      [] k = 8  -> replace_multipolygons(g)
      [] k = 9  -> simplify_geometry(g)
      [] k = 10 -> replace_area_zero(g)
      [] k = 11 -> replace_none_geometries(g)
      [] k = 12 -> replace_out_of_bound_geometries(g)
      [] k = 13 -> replace_invalid(g)

\* C21: the repair steps run in the order dedupe, hull rescue, orient, rewind, zero
\* buffer, force 2D, type rejection, multipolygon collapse, simplify, zero area, null,
\* out of bounds, still invalid: a step that completes moves the batch from one
\* position to the next one, and in that one step every record's geometry becomes
\* what the step makes of it.
C21_StepsInOrderOverWholeBatch ==
    [][ pc' \in Range(Tail(ChainPositions)) =>
            \E k \in 1..(Len(ChainPositions) - 1) :
                /\ pc = ChainPositions[k]
                /\ pc' = ChainPositions[k + 1]
                /\ Len(gdf') = Len(gdf)
                /\ \A i \in 1..Len(gdf) :
                       gdf'[i].geometry = StepAsListed(k, gdf[i].geometry) ]_vars

\* C21 witness: a batch of two has gone through the whole chain; its first record, a
\* crossed square, came out as its hull and its second, which no step could mend, as
\* the empty polygon.
C21_BatchRepairedStepByStep ==
    /\ pc = "fixed"
    /\ Len(gdf) = NRows
    /\ gdf[1].geometry = Quad(600) /\ gdf[1].original_vertices = 5
    /\ BecameEmpty(gdf[2])


\* a step taken after the repair chain keeps the records and their geometries
GeometryKept ==
    pc \in {"fixed", "validated", "done"} =>
        /\ Len(gdf') = Len(gdf)
        /\ \A i \in 1..Len(gdf) :
               /\ gdf'[i].geometry = gdf[i].geometry
               /\ (DOMAIN gdf[i]) \subseteq (DOMAIN gdf'[i])

\* C22: once the repair chain has finished, no step changes a geometry: the metric
\* stages with validate_overlap, and the assignment of reasons, validity and geojson,
\* keep the records in number and order and leave each record's geometry as the
\* repair chain left it, while they add columns.
C22_GeometryFrozenAfterRepair == [][GeometryKept]_vars

\* C22 witness: a record that overlaps another has been through the metric stages, the
\* overlap detector and the reason collector, and its geometry is the 600 m2
\* quadrilateral the chain handed over, whole.
C22_OverlappingRecordKeepsGeometry ==
    /\ pc = "done"
    /\ gdf[1].geometry = Quad(600)
    /\ gdf[1].area_m2 = 600
    /\ gdf[1].overlap_ids = "b"
    /\ gdf[1].reasons = "Overlapping polygons"


(***************************************************************************)
(* PROPERTIES OF SINGLE REPAIR STEPS, continued (under SpecFix).           *)
(***************************************************************************)
\* what the zero-buffer step does to the geometries of the batch
ZeroBufferWithinBand ==
    pc' = "zero_buffer" => \A i \in 1..Len(gdf) :
        LET g == gdf[i].geometry
            b == Lib(g, "buffer0")
            replaced == /\ ~is_valid(g)
                        /\ area(g) > 0
                        /\ 995 * area(g) <= 1000 * area(b)
                        /\ 1000 * area(b) < 1005 * area(g)
        IN gdf'[i].geometry = IF replaced THEN b ELSE g

\* C23: the zero-buffer step replaces a geometry by its buffer(0) only when the
\* geometry is not valid, its area is positive and the buffer's area is at least 0.995
\* and less than 1.005 times that area; in every other case (a valid geometry, an area
\* of zero, a ratio outside the band) the geometry comes out as it went in.
C23_ZeroBufferOnlyWithinBand == [][ZeroBufferWithinBand]_vars

\* C23 witness: a crossed ring of area 1000 whose buffer has area 995, the lower end
\* of the band, has come out of the step as that buffer.
C23_BufferAtLowerEndAccepted ==
    /\ pc = "zero_buffer"
    /\ gdf[1].original_vertices = 7
    /\ gdf[1].geometry = ValidPolygon(6, 995, FALSE, "normal", "compact")


\* what the statement has the multipolygon step do to a MultiPolygon of several parts
LargestPartFromNinetyPercent ==
    pc' = "multipolygons" => \A i \in 1..Len(gdf) :
        LET g == gdf[i].geometry
        IN (~is_empty(g) /\ isinstance(g, "MultiPolygon") /\ Len(g.parts) > 1) =>
               gdf'[i].geometry =
                   IF 10 * area(MaxAreaPart(g.parts)) >= 9 * area(g)
                   THEN MaxAreaPart(g.parts) ELSE g

\* C24, as stated: the multipolygon step turns a MultiPolygon of several parts into
\* its largest part exactly when that part has at least 90% of the total area, and
\* leaves it as it is otherwise.
C24_AsStated_LargestPartFromNinetyPercent == [][LargestPartFromNinetyPercent]_vars

\* the same with "more than 90%", which is what the step does
LargestPartAboveNinetyPercent ==
    pc' = "multipolygons" => \A i \in 1..Len(gdf) :
        LET g == gdf[i].geometry
        IN IF is_empty(g) \/ isinstance(g, "Polygon") THEN gdf'[i].geometry = g
           ELSE IF isinstance(g, "MultiPolygon")
           THEN gdf'[i].geometry =
                    IF Len(g.parts) = 1 THEN g.parts[1]
                    ELSE IF 10 * area(MaxAreaPart(g.parts)) > 9 * area(g)
                    THEN MaxAreaPart(g.parts) ELSE g
           ELSE TRUE

C24_LargestPartAboveNinetyPercent == [][LargestPartAboveNinetyPercent]_vars


\* what the statement has the zero-area step do
ZeroAreaBecomesEmpty ==
    pc' = "area_zero" => \A i \in 1..Len(gdf) :
        LET g == gdf[i].geometry
        IN ~is_none(g) =>
               gdf'[i].geometry = IF area(g) = 0 THEN EmptyPolygon ELSE g

\* C25, as stated: the zero-area step of the post-pass turns every geometry of area 0
\* into the canonical empty polygon and leaves every geometry of positive area as it
\* is.
C25_AsStated_ZeroAreaBecomesEmpty == [][ZeroAreaBecomesEmpty]_vars

\* the consequence drawn in C25, which holds: a geometry that leaves the repair chain
\* is empty or has a positive area
C25_NoZeroAreaLeavesChain ==
    pc = "fixed" => \A i \in 1..Len(gdf) :
        is_empty(gdf[i].geometry) \/ area(gdf[i].geometry) > 0


(***************************************************************************)
(* PROPERTIES OF THE METRIC STAGES (under Spec).                           *)
(***************************************************************************)
\* the number of coordinates of a polygon's exterior ring, closing point included
RingCount(g) == IF is_empty(g) THEN 0 ELSE Len(g.coords)

\* C26: once the batch is validated, a record whose geometry is a polygon is flagged
\* nr_vertices_too_small exactly when its ring, closing point counted (0 when empty),
\* has at most MAX_VERTICES coordinates: with the threshold 4 a triangle (4
\* coordinates) is flagged and a quadrilateral (5 coordinates) is not.
C26_TooSmallIffRingCountAtMostMax ==
    pc \in {"validated", "done"} => \A i \in 1..Len(gdf) :
        LET g == gdf[i].geometry
        IN (Has(gdf[i], "nr_vertices_too_small") /\ g.type = "Polygon") =>
               /\ gdf[i].nr_vertices = Float(RingCount(g))
               /\ gdf[i].nr_vertices_too_small <=> RingCount(g) <= MAX_VERTICES
               /\ (MAX_VERTICES = 4 /\ RingCount(g) = 4) => gdf[i].nr_vertices_too_small
               /\ (MAX_VERTICES = 4 /\ RingCount(g) = 5) => ~gdf[i].nr_vertices_too_small

\* C26 witness: of two validated records the triangle is flagged and carries the
\* reason, the quadrilateral of five ring coordinates is not flagged.
C26_TriangleFlaggedQuadrilateralNot ==
    /\ pc = "done"
    /\ Len(gdf[1].geometry.coords) = 4 /\ is_valid(gdf[1].geometry)
    /\ gdf[1].nr_vertices_too_small
    /\ "Nr vertices <= 3" \in Range(Split(gdf[1].reasons))
    /\ Len(gdf[2].geometry.coords) = 5 /\ is_valid(gdf[2].geometry)
    /\ ~gdf[2].nr_vertices_too_small
    /\ "Nr vertices <= 3" \notin Range(Split(gdf[2].reasons))


(***************************************************************************)
(* THE ROW VALIDATOR of src/utils/validators.py, which validate_dataset    *)
(* applies to the subplot rows one by one.  It computes its measures with  *)
(* the functions of src/utils/geometry_utils.py.  An issue is kept as its  *)
(* severity and the field it is about.                                     *)
(***************************************************************************)
\* calculate_area_m2(geom, geodesic=True)
calculate_area_m2(g) == IF is_none(g) \/ is_empty(g) THEN 0 ELSE area(g)

\* count_vertices: the ring length, 0 when there is no exterior ring
count_vertices(g) ==
    IF is_none(g) \/ is_empty(g) THEN 0
    ELSE IF isinstance(g, "Polygon") THEN Len(g.coords)
    ELSE 0

\* length_width_ratio(geom, geodesic=True) of geometry_utils, x 100
utils_length_width_ratio(g) == IF is_empty(g) THEN NaN ELSE Float(Shape(g.shape).lw_x100)

\* calculate_protruding_ratio, x 100: None for an empty geometry or an area of 0
calculate_protruding_ratio(g) ==
    IF is_empty(g) THEN NaN
    ELSE IF calculate_area_m2(g) = 0 THEN NaN
    ELSE Float(Shape(g.shape).mrr_pct)

\* check_within_radius
check_within_radius(g) ==
    IF is_none(g) \/ ~is_valid(g) THEN FALSE
    ELSE IF is_empty(geom_to_utm(g)) THEN FALSE
    ELSE Shape(g.shape).in_radius

Issue(severity, field) == [severity |-> severity, field |-> field]

\* "if ratio and ratio > threshold": None and 0 are falsy
RatioAbove(ratio, threshold) == ~ratio.nan /\ ratio.val # 0 /\ ratio.val > threshold

\* SubplotValidator.validate
SubplotValidator_validate(subplot_row) ==
    LET geom == IF Has(subplot_row, "geometry") THEN subplot_row.geometry ELSE NoneGeom
    IN IF is_none(geom) \/ is_empty(geom)
       THEN [valid |-> FALSE, issues |-> <<Issue("critical", "geometry")>>]
       ELSE LET issues == AppendIf(<<>>,
                    << [when |-> ~is_valid(geom), reason |-> Issue("error", "geometry")],
                       [when |-> calculate_area_m2(geom) < MIN_SUBPLOT_AREA_SIZE,
                        reason |-> Issue("error", "area_m2")],
                       [when |-> calculate_area_m2(geom) > MAX_SUBPLOT_AREA_SIZE,
                        reason |-> Issue("error", "area_m2")],
                       [when |-> count_vertices(geom) <= MAX_VERTICES,
                        reason |-> Issue("warning", "nr_vertices")],
                       [when |-> RatioAbove(utils_length_width_ratio(geom),
                                            THRESHOLD_LENGTH_WIDTH),
                        reason |-> Issue("warning", "length_width_ratio")],
                       [when |-> RatioAbove(calculate_protruding_ratio(geom),
                                            THRESHOLD_PROTRUDING_RATIO),
                        reason |-> Issue("warning", "protruding_ratio")],
                       [when |-> ~check_within_radius(geom),
                        reason |-> Issue("warning", "in_radius")],
                       [when |-> Has(subplot_row, "overlap_ids")
                                 /\ subplot_row.overlap_ids # NullStr
                                 /\ subplot_row.overlap_ids # "",
                        reason |-> Issue("error", "overlap_ids")] >>)
                IN [valid |-> \A k \in 1..Len(issues) :
                                 issues[k].severity \notin {"critical", "error"},
                    issues |-> issues]

ValidatorInputs ==
    {NoneGeom, EmptyPolygon, Quad(600), Quad(100), Quad(800),
     ValidPolygon(4, 600, FALSE, "normal", "compact"),
     ValidPolygon(5, 600, FALSE, "normal", "wide"),
     ValidPolygon(5, 600, FALSE, "normal", "spiky"),
     ValidPolygon(5, 600, FALSE, "polar", "compact"),
     InvalidPolygon(CrossedRing(7), 600, [buffer0 |-> Quad(300)])}

InitValidator ==
    /\ pc = "validator_rows"
    /\ polygon_string = NullCell
    /\ accuracy_zero_valid = FALSE
    /\ parsed = NotParsed
    /\ \E ids \in [1..NRows -> Ids] : \E gs \in [1..NRows -> ValidatorInputs] :
           \E os \in [1..NRows -> {"", "b"}] :
               gdf = [i \in 1..NRows |->
                         [subplot_id |-> ids[i], geometry |-> gs[i], overlap_ids |-> os[i]]]
    /\ geos = NoGeos

\* the loop of validate_dataset over the subplot rows
ValidateDataset ==
    /\ pc = "validator_rows"
    /\ gdf' = [i \in 1..Len(gdf) |->
                  Assign(gdf[i], "validation", SubplotValidator_validate(gdf[i]))]
    /\ pc' = "validator_done"
    /\ UNCHANGED <<polygon_string, accuracy_zero_valid, parsed, geos>>

NextValidator == ValidateDataset

SpecValidator == InitValidator /\ [][NextValidator]_vars

\* C27, as stated: for every subplot row the validator's result has valid true exactly
\* when its list of issues is empty.
C27_AsStated_ValidIffNoIssues ==
    pc = "validator_done" => \A i \in 1..Len(gdf) :
        gdf[i].validation.valid <=> gdf[i].validation.issues = <<>>

\* what holds of the validator: valid is true exactly when no issue is critical or an
\* error, whatever the warnings
C27_ValidIffNoCriticalOrError ==
    pc = "validator_done" => \A i \in 1..Len(gdf) :
        LET v == gdf[i].validation
        IN v.valid <=> ~\E k \in 1..Len(v.issues) :
                           v.issues[k].severity \in {"critical", "error"}


(***************************************************************************)
(* The computations that project a geometry to UTM, each on one geometry.  *)
(***************************************************************************)
InitProjection ==
    /\ pc = "geometry"
    /\ polygon_string = NullCell
    /\ accuracy_zero_valid = FALSE
    /\ parsed = NotParsed
    /\ \E g \in FixInputs \cup {ValidPolygon(5, 600, FALSE, place, "compact") :
                                   place \in {"antarctic", "beyond"}} :
           gdf = <<[subplot_id |-> "a", geometry |-> g]>>
    /\ geos = NoGeos

\* one computation on the record's geometry, its outcome kept in the column result
Compute(name, outcome) ==
    /\ pc = "geometry"
    /\ gdf' = <<Assign(gdf[1], "result", outcome)>>
    /\ pc' = name
    /\ UNCHANGED <<polygon_string, accuracy_zero_valid, parsed, geos>>

ProjectToUtm == Compute("geom_to_utm", geom_to_utm(gdf[1].geometry))
SimplifyCore == Compute("simplify_core", simplify_geometry(gdf[1].geometry))
SimplifyScript == Compute("simplify_script", script_simplify_geometry(gdf[1].geometry))
AreaUtm == Compute("area_utm", area(geom_to_utm(gdf[1].geometry)))
InRadius == Compute("in_radius", all_points_in_radius(gdf[1].geometry))

NextProjection == ProjectToUtm \/ SimplifyCore \/ SimplifyScript \/ AreaUtm \/ InRadius

SpecProjection == InitProjection /\ [][NextProjection]_vars

\* a centroid that the statement calls unprojectable
CentroidOutsideAsStated(g) ==
    \/ g.centroid[2] < -80 \/ g.centroid[2] > 80
    \/ g.centroid[1] < -180 \/ g.centroid[1] > 180

\* a centroid that geom_to_utm refuses
CentroidRefused(g) ==
    \/ g.centroid[2] < -80 \/ g.centroid[2] > 84
    \/ g.centroid[1] < -180 \/ g.centroid[1] > 180

\* C28, as stated: for a geometry whose centroid lies beyond 80 degrees of latitude or
\* 180 degrees of longitude, geom_to_utm gives the empty polygon, and the area, the
\* simplification and the radius test end without an exception and as for an empty
\* geometry: area 0, the empty polygon, not within the radius.
C28_AsStated_UnprojectableTreatedAsEmpty ==
    (pc # "geometry" /\ ~is_empty(gdf[1].geometry)
        /\ CentroidOutsideAsStated(gdf[1].geometry)) =>
        /\ gdf[1].result # RAISE
        /\ pc \in {"geom_to_utm", "simplify_core", "simplify_script"} =>
               gdf[1].result = EmptyPolygon
        /\ pc = "area_utm" => gdf[1].result = 0
        /\ pc = "in_radius" => gdf[1].result = FALSE

\* what holds: with the centroids geom_to_utm refuses (latitude below -80 or above 84),
\* the functions of src/core/gt_check_functions.py behave as the statement says
C28_CoreTreatsRefusedAsEmpty ==
    (pc \in {"geom_to_utm", "simplify_core", "area_utm", "in_radius"}
        /\ ~is_empty(gdf[1].geometry) /\ CentroidRefused(gdf[1].geometry)) =>
        /\ pc \in {"geom_to_utm", "simplify_core"} => gdf[1].result = EmptyPolygon
        /\ pc = "area_utm" => gdf[1].result = 0
        /\ pc = "in_radius" => gdf[1].result = FALSE


(***************************************************************************)
(* WHAT LEAVES THE REPAIR CHAIN (under Spec).                              *)
(***************************************************************************)
\* C29: once fix_geometry has gone through a batch, every record's geometry is
\* present and valid (a valid geometry, the empty polygon or the buffered
\* representative point), and the reasons given to it afterwards are never
\* "Geometry missing" nor "Invalid geometry".
C29_NoMissingOrInvalidAfterRepair ==
    pc \in {"fixed", "validated", "done"} => \A i \in 1..Len(gdf) :
        /\ ~is_none(gdf[i].geometry)
        /\ is_valid(gdf[i].geometry)
        /\ Has(gdf[i], "reasons") =>
               gdf[i].reasons \notin {"Geometry missing", "Invalid geometry"}

\* an invalid polygon of 7 ring coordinates that no earlier step repaired came out of
\* replace_invalid as the empty polygon and got the reasons of an empty geometry
C29_InvalidInputRepaired ==
    /\ pc = "done"
    /\ gdf[1].original_vertices = 7
    /\ gdf[1].geometry = EmptyPolygon
    /\ gdf[1].reasons = "Empty geometry"
    /\ gdf[2].geometry = Quad(600)


(***************************************************************************)
(* THE OVERLAP CANDIDATES AND THE REASONS (under Spec).                    *)
(***************************************************************************)
\* the reasons of a record other than "Overlapping polygons"
OtherReasons(row) == Range(Split(row.reasons)) \ {"", "Overlapping polygons"}

\* C30, as stated: once the reasons are assigned, every record that overlap_filter
\* keeps out of overlap detection carries a reason other than "Overlapping polygons";
\* a record with no such reason is an overlap candidate, its area being equal to the
\* minimum or the maximum bound included.
C30_AsStated_ExcludedRecordsCarryAReason ==
    pc = "done" => \A i \in 1..Len(gdf) :
        Has(gdf[i], "area_m2") =>
            (~overlap_filter(gdf[i]) => OtherReasons(gdf[i]) # {})

\* what holds: the same for the records whose area is neither bound
C30_ExcludedOffTheBoundsCarryAReason ==
    pc = "done" => \A i \in 1..Len(gdf) :
        (Has(gdf[i], "area_m2")
            /\ gdf[i].area_m2 \notin {MIN_SUBPLOT_AREA_SIZE, MAX_SUBPLOT_AREA_SIZE}) =>
            (~overlap_filter(gdf[i]) => OtherReasons(gdf[i]) # {})

=============================================================================
